---------------------------- MODULE Spec2Model ----------------------------
(***************************************************************************)
(* A model of the image-comparison element (devernay/image-comparison-     *)
(* element): the element's image slots with their asynchronous loads and   *)
(* mip-pyramid builds, the coordinate transforms, the wipe clipping        *)
(* geometry, mip level selection and the composite rendering pipeline.     *)
(*                                                                         *)
(* Numbers.  The program computes in IEEE doubles.  Here a number is a     *)
(* rational <<n, d>> (d > 0, lowest terms), and every arithmetic operation *)
(* of the code is one of NAdd, NSub, NMul, NDiv, which round their exact   *)
(* result to a binary floating-point format of `prec' mantissa bits, as    *)
(* the hardware rounds to 53.  With prec = 0 nothing is rounded: the       *)
(* geometry, the rendering and the element are computed exactly, on inputs *)
(* (grid coordinates, wipe normals with rational cosine and sine) whose    *)
(* results the 53-bit format would not round visibly.  The transform round *)
(* trip is computed with prec = MantissaBits.                              *)
(***************************************************************************)
EXTENDS Integers, Sequences, FiniteSets, TLC

VARIABLES
    state,        \* ImageComparisonElement.state (ElementState)
    images,       \* the Image objects created by loadImage, in creation order
    builds,       \* createMipMaps calls whose promise is not yet resolved
    dom,          \* the element's DOM texts and flags touched by the handlers
    prec,         \* mantissa bits of the arithmetic (0: exact)
    call,         \* the function applied to the state, with its other arguments
    result        \* what the call returned or drew

elemVars == <<state, images, builds, dom>>

vars == <<state, images, builds, dom, prec, call, result>>

----------------------------------------------------------------------------
(* Rational numbers and the rounding of the arithmetic.                    *)

Abs(x) == IF x < 0 THEN -x ELSE x

Max2(a, b) == IF a >= b THEN a ELSE b

RECURSIVE GCD(_, _)
GCD(a, b) == IF b = 0 THEN a ELSE GCD(b, a % b)

RECURSIVE Pow2(_)
Pow2(k) == IF k = 0 THEN 1 ELSE 2 * Pow2(k - 1)

Rat(n, d) ==
    LET s == IF d < 0 THEN -1 ELSE 1
        g == GCD(Abs(n), Abs(d))
    IN  <<(s * n) \div g, (s * d) \div g>>

RInt(n) == <<n, 1>>

RAdd(a, b) == Rat(a[1] * b[2] + b[1] * a[2], a[2] * b[2])

RSub(a, b) == Rat(a[1] * b[2] - b[1] * a[2], a[2] * b[2])

RMul(a, b) == Rat(a[1] * b[1], a[2] * b[2])

RDiv(a, b) == Rat(a[1] * b[2], a[2] * b[1])

RNeg(a) == <<-a[1], a[2]>>

RAbs(a) == <<Abs(a[1]), a[2]>>

RLt(a, b) == a[1] * b[2] < b[1] * a[2]

RLe(a, b) == a[1] * b[2] <= b[1] * a[2]

RMin(a, b) == IF RLe(a, b) THEN a ELSE b

RMax(a, b) == IF RLe(a, b) THEN b ELSE a

\* Math.floor.
Floor(r) == r[1] \div r[2]

\* |a| < 1/m, for an integer m > 0 (the code's |x| < 1e-6).
AbsLtInv(a, m) == Abs(a[1]) <= (a[2] - 1) \div m

\* a >= b - 1/m and a <= b + 1/m (the code's comparisons with +- 1e-6).
GeMinusInv(a, b, m) ==
    LET diff == RSub(a, b) IN diff[1] >= 0 \/ -diff[1] <= diff[2] \div m

LePlusInv(a, b, m) == GeMinusInv(b, a, m)

\* n/d = n'/d' * 2^k with 2^(p-1) <= n'/d' < 2^p: <<n', d', k>>  (n, d > 0).
RECURSIVE FNorm(_, _, _, _)
FNorm(n, d, k, p) ==
    IF n < Pow2(p - 1) * d THEN FNorm(2 * n, d, k - 1, p)
    ELSE IF n >= Pow2(p) * d THEN FNorm(n, 2 * d, k + 1, p)
    ELSE <<n, d, k>>

\* The integer nearest to m0 + r/d (0 <= r < d), ties to the even one.
FNearestEven(m0, r, d) ==
    IF 2 * r < d THEN m0
    ELSE IF 2 * r > d THEN m0 + 1
    ELSE IF m0 % 2 = 0 THEN m0 ELSE m0 + 1

\* m * 2^k.
FScale(m, k) == IF k >= 0 THEN Rat(m * Pow2(k), 1) ELSE Rat(m, Pow2(-k))

\* The normalised f = <<n, d, k>> rounded to an integer mantissa, with sign sg.
FPack(f, sg) == FScale(sg * FNearestEven(f[1] \div f[2], f[1] % f[2], f[2]), f[3])

\* q rounded to the nearest number m * 2^k with m < 2^p, ties to even m
\* (IEEE round-to-nearest-even, exponent range unbounded).
FRound(q, p) ==
    IF q[1] = 0 THEN q
    ELSE FPack(FNorm(Abs(q[1]), q[2], 0, p), IF q[1] < 0 THEN -1 ELSE 1)

Rnd(q) == IF prec = 0 THEN q ELSE FRound(q, prec)

\* The arithmetic of the program: +, -, *, / on numbers.
NAdd(a, b) == Rnd(RAdd(a, b))

NSub(a, b) == Rnd(RSub(a, b))

NMul(a, b) == Rnd(RMul(a, b))

NDiv(a, b) == Rnd(RDiv(a, b))

----------------------------------------------------------------------------
(* Bounds of the model and the images the environment can serve.           *)

MaxLoads == 3        \* loadImage calls in one run

CanvasWidth == 8     \* the element's canvas width in the element's runs

CanvasHeight == 6    \* the element's canvas height in the element's runs

ImageTypes == {"A", "B"}

\* The URLs the host can name.  Url 1 decodes to a 2 x 2 image (too small
\* for a pyramid), url 2 to an 8 x 4 image (levels 8x4, 4x2, 2x1, 1x1).
Urls == {1, 2}

UrlWidth(u) == IF u = 1 THEN 2 ELSE 8

UrlHeight(u) == IF u = 1 THEN 2 ELSE 4

\* An HTMLImageElement: the Image object's identity and its decoded size.
\* id 0 is null.
Image(id, w, h) == [id |-> id, width |-> w, height |-> h]

NoImage == Image(0, 0, 0)

NoData == 0          \* null ImageData; otherwise the id of the image it was read from

NoMipMaps == <<>>    \* null: no pyramid (a pyramid has at least level 0)

Canvas(w, h) == [width |-> w, height |-> h]

P(x, y) == [x |-> x, y |-> y]

----------------------------------------------------------------------------
(* coordinates.ts: the transforms between image and canvas coordinates.    *)

imageToCanvasCoords(imageX, imageY, imageType, s) ==
    LET offsetX == IF imageType = "A" THEN s.offsetAX ELSE s.offsetBX
        offsetY == IF imageType = "A" THEN s.offsetAY ELSE s.offsetBY
    IN  [x |-> NAdd(NAdd(NMul(imageX, s.scale), s.offsetX), offsetX),
         y |-> NAdd(NAdd(NMul(imageY, s.scale), s.offsetY), offsetY)]

\* A faulty inverse: the per-image offset left out.
canvasToImageCoordsShared(canvasX, canvasY, imageType, s) ==
    [x |-> NDiv(NSub(canvasX, s.offsetX), s.scale),
     y |-> NDiv(NSub(canvasY, s.offsetY), s.scale)]

canvasToImageCoords(canvasX, canvasY, imageType, s) ==
    LET offsetX == IF imageType = "A" THEN s.offsetAX ELSE s.offsetBX
        offsetY == IF imageType = "A" THEN s.offsetAY ELSE s.offsetBY
    IN  [x |-> NDiv(NSub(NSub(canvasX, s.offsetX), offsetX), s.scale),
         y |-> NDiv(NSub(NSub(canvasY, s.offsetY), offsetY), s.scale)]

getWipePositionInCanvasCoords(s) ==
    imageToCanvasCoords(s.wipePositionInImageACoords.x,
                        s.wipePositionInImageACoords.y, "A", s)

----------------------------------------------------------------------------
(* Angles.  A number of degrees a is <<a, 0>>; multiplying by Math.PI/180   *)
(* raises the second component, so <<a, 1>> is a degrees in radians.  The  *)
(* wipe angles of the model are the multiples of 90 and the angles of the  *)
(* 3-4-5 triangle, whose cosine and sine are rational: 37 and 53 name      *)
(* atan(3/4) = 36.87 and atan(4/3) = 53.13 degrees, and so on round the    *)
(* circle.                                                                 *)

WipeAngles == {0, 37, 53, 90, 127, 143, 180, 217, 233, 270, 307, 323}

Num(a) == <<a, 0>>

TimesPiOver180(x) == <<x[1], x[2] + 1>>

\* Five times the cosine and the sine of a degrees.
Cos5(a) ==
    CASE a = 0 -> 5    [] a = 37 -> 4   [] a = 53 -> 3   [] a = 90 -> 0
      [] a = 127 -> -3 [] a = 143 -> -4 [] a = 180 -> -5 [] a = 217 -> -4
      [] a = 233 -> -3 [] a = 270 -> 0  [] a = 307 -> 3  [] a = 323 -> 4
      [] a = -90 -> 0

Sin5(a) ==
    CASE a = 0 -> 0    [] a = 37 -> 3   [] a = 53 -> 4   [] a = 90 -> 5
      [] a = 127 -> 4  [] a = 143 -> 3  [] a = 180 -> 0  [] a = 217 -> -3
      [] a = 233 -> -4 [] a = 270 -> -5 [] a = 307 -> -4 [] a = 323 -> -3
      [] a = -90 -> -5

\* Math.cos and Math.sin of an angle in radians.
MathCos(rad) == IF rad[1] = 0 THEN RInt(1) ELSE Rat(Cos5(rad[1]), 5)

MathSin(rad) == IF rad[1] = 0 THEN RInt(0) ELSE Rat(Sin5(rad[1]), 5)

----------------------------------------------------------------------------
(* drawing: createWipeClippingPath and findLineIntersection.  A path is    *)
(* the sequence of the vertices of its one closed subpath.                 *)

NoPoint == [ok |-> FALSE, x |-> RInt(0), y |-> RInt(0)]

\* findLineIntersection: the point where the line through (x1, y1), (x2, y2)
\* meets the line through (x3, y3), (x4, y4), or null (ok = FALSE).
findLineIntersection(x1, y1, x2, y2, x3, y3, x4, y4) ==
    LET denom == NSub(NMul(NSub(x1, x2), NSub(y3, y4)),
                      NMul(NSub(y1, y2), NSub(x3, x4)))
        t == NDiv(NSub(NMul(NSub(x1, x3), NSub(y3, y4)),
                       NMul(NSub(y1, y3), NSub(x3, x4))), denom)
    IN  IF Abs(denom[1]) <= ((denom[2] - 1) \div 100000) \div 100000   \* < 1e-10
        THEN NoPoint
        ELSE [ok |-> TRUE,
              x |-> NAdd(x1, NMul(t, NSub(x2, x1))),
              y |-> NAdd(y1, NMul(t, NSub(y2, y1)))]

\* The four corners of image B's rectangle in canvas coordinates:
\* top-left, top-right, bottom-right, bottom-left (lines 427-439).
RectCorners(s) ==
    LET imageBWidth  == NMul(RInt(s.imageB.width), s.scale)
        imageBHeight == NMul(RInt(s.imageB.height), s.scale)
        imageBX == NAdd(s.offsetX, s.offsetBX)
        imageBY == NAdd(s.offsetY, s.offsetBY)
    IN  <<P(imageBX, imageBY),
          P(NAdd(imageBX, imageBWidth), imageBY),
          P(NAdd(imageBX, imageBWidth), NAdd(imageBY, imageBHeight)),
          P(imageBX, NAdd(imageBY, imageBHeight))>>

\* Lines 446-455: dotProduct of (corner - wipePos) with the normal.
DotProduct(corner, wipePos, wipeAngleRad) ==
    NAdd(NMul(NSub(corner.x, wipePos.x), MathCos(wipeAngleRad)),
         NMul(NSub(corner.y, wipePos.y), MathSin(wipeAngleRad)))

\* A faulty classification: the side the normal points away from.
OnOppositeSide(corner, wipePos, wipeAngleRad) ==
    DotProduct(corner, wipePos, wipeAngleRad)[1] < 0

\* Line 452: onCompositeSide.
OnCompositeSide(corner, wipePos, wipeAngleRad) ==
    DotProduct(corner, wipePos, wipeAngleRad)[1] > 0

\* Lines 504-510: the intersection i is kept when it lies within the edge's
\* bounding box widened by 1e-6.
WithinEdge(i, start, end) ==
    IF /\ i.ok
       /\ GeMinusInv(i.x, RMin(start.x, end.x), 1000000)
       /\ LePlusInv(i.x, RMax(start.x, end.x), 1000000)
       /\ GeMinusInv(i.y, RMin(start.y, end.y), 1000000)
       /\ LePlusInv(i.y, RMax(start.y, end.y), 1000000)
    THEN <<P(i.x, i.y)>>
    ELSE <<>>

\* Lines 483-502: the intersection of the wipe line, of direction
\* (-sin, cos), with the edge (start, end).
EdgeIntersection(wipePos, wipeAngleRad, start, end) ==
    WithinEdge(findLineIntersection(wipePos.x, wipePos.y,
                                    NAdd(wipePos.x, RNeg(MathSin(wipeAngleRad))),
                                    NAdd(wipePos.y, MathCos(wipeAngleRad)),
                                    start.x, start.y, end.x, end.y),
               start, end)

\* Lines 514-523: drop an intersection within 1e-6 of one already kept.
RECURSIVE UniquePoints(_, _)
UniquePoints(pts, kept) ==
    IF pts = <<>> THEN kept
    ELSE LET p == Head(pts)
             isDuplicate == \E k \in 1..Len(kept) :
                                /\ AbsLtInv(RSub(kept[k].x, p.x), 1000000)
                                /\ AbsLtInv(RSub(kept[k].y, p.y), 1000000)
         IN  UniquePoints(Tail(pts), IF isDuplicate THEN kept ELSE Append(kept, p))

\* Lines 558-559: reduce((sum, p) => sum + p.x, 0).
RECURSIVE SumX(_)
SumX(pts) ==
    IF pts = <<>> THEN RInt(0)
    ELSE NAdd(SumX(SubSeq(pts, 1, Len(pts) - 1)), pts[Len(pts)].x)

RECURSIVE SumY(_)
SumY(pts) ==
    IF pts = <<>> THEN RInt(0)
    ELSE NAdd(SumY(SubSeq(pts, 1, Len(pts) - 1)), pts[Len(pts)].y)

\* Math.atan2(a.y, a.x) < Math.atan2(b.y, b.x), for vectors a and b: the
\* order of the angles in (-pi, pi], decided by the half-plane and the sign
\* of the cross product.
Atan2Less(a, b) ==
    LET Part(v) == IF v.y[1] < 0 THEN 0
                   ELSE IF v.y[1] > 0 THEN 2
                   ELSE IF v.x[1] >= 0 THEN 1 ELSE 3
        cross == RSub(RMul(a.x, b.y), RMul(a.y, b.x))
    IN  \/ Part(a) < Part(b)
        \/ Part(a) = Part(b) /\ Part(a) \in {0, 2} /\ cross[1] > 0

\* Lines 561-565: polygonPoints.sort by the angle about the centroid (the
\* sort is stable: points of equal angle keep their order).
RECURSIVE InsertByAngle(_, _, _)
InsertByAngle(sorted, p, c) ==
    IF sorted = <<>> THEN <<p>>
    ELSE LET last == sorted[Len(sorted)]
             vp == P(NSub(p.x, c.x), NSub(p.y, c.y))
             vl == P(NSub(last.x, c.x), NSub(last.y, c.y))
         IN  IF Atan2Less(vp, vl)
             THEN Append(InsertByAngle(SubSeq(sorted, 1, Len(sorted) - 1), p, c), last)
             ELSE Append(sorted, p)

RECURSIVE SortByAngle(_, _, _)
SortByAngle(pts, sorted, c) ==
    IF pts = <<>> THEN sorted
    ELSE SortByAngle(Tail(pts), InsertByAngle(sorted, Head(pts), c), c)

\* Lines 552-565: the composite corners and the intersections, sorted by
\* the angle about their centroid.
SortedPolygon(polygonPoints) ==
    SortByAngle(polygonPoints, <<>>,
                P(NDiv(SumX(polygonPoints), RInt(Len(polygonPoints))),
                  NDiv(SumY(polygonPoints), RInt(Len(polygonPoints)))))

\* Lines 460-477 and 525-585: the path drawn for the composite corners and
\* the intersections found.
ClipPolygon(rectCorners, compositeCorners, uniqueIntersections) ==
    IF Len(compositeCorners) = 0
    THEN <<P(RInt(0), RInt(0)), P(RInt(0), RInt(0)),
           P(RInt(0), RInt(0)), P(RInt(0), RInt(0))>>          \* ctx.rect(0, 0, 0, 0)
    ELSE IF Len(compositeCorners) = 4
    THEN rectCorners
    ELSE IF Len(uniqueIntersections) >= 2
    THEN SortedPolygon(compositeCorners \o uniqueIntersections)
    ELSE compositeCorners

\* Lines 446-523: the corners on the composite side and the intersections
\* of the wipe line with the four edges, duplicates dropped.
ClipPathOfRect(rectCorners, wipePos, wipeAngleRad) ==
    ClipPolygon(
        rectCorners,
        SelectSeq(rectCorners, LAMBDA c : OnCompositeSide(c, wipePos, wipeAngleRad)),
        UniquePoints(
            EdgeIntersection(wipePos, wipeAngleRad, rectCorners[1], rectCorners[2])
            \o EdgeIntersection(wipePos, wipeAngleRad, rectCorners[2], rectCorners[3])
            \o EdgeIntersection(wipePos, wipeAngleRad, rectCorners[3], rectCorners[4])
            \o EdgeIntersection(wipePos, wipeAngleRad, rectCorners[4], rectCorners[1]),
            <<>>))

\* createWipeClippingPath: the context's current path after the call (path:
\* the current path before it, which stays when image B is null).
createWipeClippingPath(path, wipePos, wipeAngleRad, s) ==
    IF s.imageB.id = 0 THEN path
    ELSE ClipPathOfRect(RectCorners(s), wipePos, wipeAngleRad)

----------------------------------------------------------------------------
(* mip-mapping: createMipMaps.  A raster is one level of a pyramid: the    *)
(* image it was made from, its level and its size.  Level 0 is the         *)
(* original HTMLImageElement itself.                                       *)

Raster(img, level, w, h) == [img |-> img, level |-> level, width |-> w, height |-> h]

HalfSize(n) == Max2(1, n \div 2)

\* createNextLevel: called with the levels made so far and the size of the
\* last one.  Either resolves the promise (done) or leaves the next level's
\* image decoding (its size in width, height).  ctxOk: getContext('2d')
\* returned a context for the level's canvas.
\* A faulty build: it stops as soon as one of the two sizes is 1.
createNextLevelUntilEither(mipMaps, width, height, ctxOk) ==
    IF width <= 1 \/ height <= 1
    THEN [done |-> TRUE, mipMaps |-> mipMaps, width |-> width, height |-> height]
    ELSE IF ~ctxOk
    THEN [done |-> TRUE, mipMaps |-> mipMaps,
          width |-> HalfSize(width), height |-> HalfSize(height)]
    ELSE [done |-> FALSE, mipMaps |-> mipMaps,
          width |-> HalfSize(width), height |-> HalfSize(height)]

\* A faulty build: a missing context drops the levels made so far.
createNextLevelDropping(mipMaps, width, height, ctxOk) ==
    IF width <= 1 /\ height <= 1
    THEN [done |-> TRUE, mipMaps |-> mipMaps, width |-> width, height |-> height]
    ELSE IF ~ctxOk
    THEN [done |-> TRUE, mipMaps |-> <<mipMaps[1]>>,
          width |-> HalfSize(width), height |-> HalfSize(height)]
    ELSE [done |-> FALSE, mipMaps |-> mipMaps,
          width |-> HalfSize(width), height |-> HalfSize(height)]

\* A faulty build: it stops only at a size of 0, which Math.max(1, ...)
\* never lets a level have.
createNextLevelUntilEmpty(mipMaps, width, height, ctxOk) ==
    IF width <= 0 /\ height <= 0
    THEN [done |-> TRUE, mipMaps |-> mipMaps, width |-> width, height |-> height]
    ELSE IF ~ctxOk
    THEN [done |-> TRUE, mipMaps |-> mipMaps,
          width |-> HalfSize(width), height |-> HalfSize(height)]
    ELSE [done |-> FALSE, mipMaps |-> mipMaps,
          width |-> HalfSize(width), height |-> HalfSize(height)]
createNextLevel(mipMaps, width, height, ctxOk) ==
    IF width <= 1 /\ height <= 1
    THEN [done |-> TRUE, mipMaps |-> mipMaps, width |-> width, height |-> height]
    ELSE IF ~ctxOk
    THEN [done |-> TRUE, mipMaps |-> mipMaps,
          width |-> HalfSize(width), height |-> HalfSize(height)]
    ELSE [done |-> FALSE, mipMaps |-> mipMaps,
          width |-> HalfSize(width), height |-> HalfSize(height)]

\* createMipMaps up to its first suspension.
createMipMaps(image, ctxOk) ==
    IF image.width < 4 \/ image.height < 4
    THEN [done |-> TRUE,
          mipMaps |-> <<Raster(image.id, 0, image.width, image.height)>>,
          width |-> image.width, height |-> image.height]
    ELSE createNextLevel(<<Raster(image.id, 0, image.width, image.height)>>,
                         image.width, image.height, ctxOk)

\* The pyramid createMipMaps resolves with once every level has loaded,
\* m being the build at a suspension; getContext('2d') returns null for the
\* canvas of level failAt (never when failAt = 0).
RECURSIVE BuildPyramid(_, _)
BuildPyramid(m, failAt) ==
    IF m.done THEN m.mipMaps
    ELSE BuildPyramid(
             createNextLevel(Append(m.mipMaps,
                                    Raster(m.mipMaps[1].img, Len(m.mipMaps), m.width, m.height)),
                             m.width, m.height, Len(m.mipMaps) + 1 # failAt),
             failAt)

Pyramid(image, failAt) == BuildPyramid(createMipMaps(image, failAt # 1), failAt)

----------------------------------------------------------------------------
(* The 2D context of a canvas: its drawing state, and the drawing calls    *)
(* made on it, in order (events).  A drawing call records the drawing      *)
(* state it was made under.                                                *)

NewContext(width, height) ==
    [width |-> width, height |-> height,
     globalAlpha |-> RInt(1), globalCompositeOperation |-> "source-over",
     imageSmoothingEnabled |-> TRUE,
     path |-> <<>>, clips |-> <<>>, saved |-> <<>>, events |-> <<>>]

\* ctx.save() and ctx.restore().
CtxSave(ctx) ==
    [ctx EXCEPT !.saved = Append(@, [globalAlpha |-> ctx.globalAlpha,
                                     globalCompositeOperation |-> ctx.globalCompositeOperation,
                                     imageSmoothingEnabled |-> ctx.imageSmoothingEnabled,
                                     clips |-> ctx.clips])]

CtxRestore(ctx) ==
    IF ctx.saved = <<>> THEN ctx
    ELSE [ctx EXCEPT !.globalAlpha = ctx.saved[Len(ctx.saved)].globalAlpha,
                     !.globalCompositeOperation =
                         ctx.saved[Len(ctx.saved)].globalCompositeOperation,
                     !.imageSmoothingEnabled = ctx.saved[Len(ctx.saved)].imageSmoothingEnabled,
                     !.clips = ctx.saved[Len(ctx.saved)].clips,
                     !.saved = SubSeq(@, 1, Len(@) - 1)]

\* ctx.clip(): the clipping region is intersected with the current path.
CtxClip(ctx) == [ctx EXCEPT !.clips = Append(@, ctx.path)]

\* A drawing call made on ctx.
CtxDraw(ctx, event) ==
    [ctx EXCEPT !.events = Append(@,
        event @@ [globalAlpha |-> ctx.globalAlpha,
                  globalCompositeOperation |-> ctx.globalCompositeOperation,
                  imageSmoothingEnabled |-> ctx.imageSmoothingEnabled,
                  clips |-> ctx.clips])]

\* ctx.drawImage(source, ..., x, y, width, height).
CtxDrawImage(ctx, source, x, y, width, height) ==
    CtxDraw(ctx, [kind |-> "drawImage", source |-> source,
                  x |-> x, y |-> y, width |-> width, height |-> height])

\* ctx.fillStyle = fillStyle; ctx.fillRect(x, y, width, height).
CtxFillRect(ctx, fillStyle, x, y, width, height) ==
    CtxDraw(ctx, [kind |-> "fillRect", fillStyle |-> fillStyle,
                  x |-> x, y |-> y, width |-> width, height |-> height])

----------------------------------------------------------------------------
(* drawing: drawSingleImage and renderImageWithMipMaps.                    *)

\* A faulty loop: a coarser level is taken at half scale already.
RECURSIVE selectMipLevelAtHalf(_, _, _)
selectMipLevelAtHalf(currentScale, mipLevel, length) ==
    IF RLe(currentScale, Rat(1, 2)) /\ mipLevel < length - 1
    THEN selectMipLevelAtHalf(NMul(currentScale, RInt(2)), mipLevel + 1, length)
    ELSE mipLevel

\* Lines 730-736: the loop selecting the mip level.
RECURSIVE selectMipLevel(_, _, _)
selectMipLevel(currentScale, mipLevel, length) ==
    IF RLt(currentScale, Rat(1, 2)) /\ mipLevel < length - 1
    THEN selectMipLevel(NMul(currentScale, RInt(2)), mipLevel + 1, length)
    ELSE mipLevel

\* Line 738: imageToUse (mipMaps is indexed from 1 here, from 0 in the code).
imageToUse(mipLevel, originalImage, mipMaps) ==
    IF mipLevel = 0
    THEN Raster(originalImage.id, 0, originalImage.width, originalImage.height)
    ELSE mipMaps[mipLevel]

\* Lines 742-748, for the level selected (kept with the drawing call).
DrawMipLevel(ctx, mipLevel, originalImage, mipMaps, destX, destY, destWidth, destHeight) ==
    CtxDraw(ctx, [kind |-> "drawImage",
                  source |-> imageToUse(mipLevel, originalImage, mipMaps),
                  mipLevel |-> mipLevel,
                  x |-> destX, y |-> destY, width |-> destWidth, height |-> destHeight])

renderImageWithMipMaps(ctx, originalImage, mipMaps, destX, destY, destWidth, destHeight, scale) ==
    DrawMipLevel([ctx EXCEPT !.imageSmoothingEnabled = RLt(scale, RInt(1))],
                 selectMipLevel(scale, 0, Len(mipMaps)),
                 originalImage, mipMaps, destX, destY, destWidth, destHeight)

\* Lines 675-704, for an image that is not null.
DrawImageAt(ctx, s, image, mipMaps, offsetX, offsetY) ==
    IF mipMaps # NoMipMaps /\ Len(mipMaps) > 0
    THEN renderImageWithMipMaps(ctx, image, mipMaps,
                                NAdd(s.offsetX, offsetX), NAdd(s.offsetY, offsetY),
                                NMul(RInt(image.width), s.scale),
                                NMul(RInt(image.height), s.scale),
                                s.scale)
    ELSE CtxDrawImage([ctx EXCEPT !.imageSmoothingEnabled = RLt(s.scale, RInt(1))],
                      Raster(image.id, 0, image.width, image.height),
                      NAdd(s.offsetX, offsetX), NAdd(s.offsetY, offsetY),
                      NMul(RInt(image.width), s.scale),
                      NMul(RInt(image.height), s.scale))

\* drawSingleImage(state, imageType), ctx being state.ctx.
drawSingleImage(ctx, s, imageType) ==
    IF ~s.ctx THEN ctx
    ELSE IF imageType = "A"
    THEN IF s.imageA = NoImage THEN ctx
         ELSE DrawImageAt(ctx, s, s.imageA, s.imageAMipMaps, s.offsetAX, s.offsetAY)
    ELSE IF s.imageB = NoImage THEN ctx
         ELSE DrawImageAt(ctx, s, s.imageB, s.imageBMipMaps, s.offsetBX, s.offsetBY)

----------------------------------------------------------------------------
(* drawing: the composites.  A function that draws takes the context it    *)
(* draws on (state.ctx, or the context of an off-screen canvas) and gives  *)
(* the context after the call; s is the state without its context.         *)
(* contextOk: getContext('2d') gives a context for an off-screen canvas.   *)

\* Lines 892-896 and 907-912: the white fill of the inverted difference.
FillWhite(offCtx, inverted) ==
    IF inverted
    THEN CtxFillRect(offCtx, "white", RInt(0), RInt(0),
                     RInt(offCtx.width), RInt(offCtx.height))
    ELSE offCtx

\* Lines 885-912: the off-screen canvas of the difference, once drawn.
\* A faulty inversion: the second 'difference' pass against white is left out.
DifferenceCanvasUninverted(s, inverted) ==
    drawSingleImage(
        [drawSingleImage(FillWhite(NewContext(s.canvas.width, s.canvas.height), inverted),
                         s, "B")
            EXCEPT !.globalCompositeOperation = "difference"],
        s, "A")

DifferenceCanvas(s, inverted) ==
    FillWhite(
        drawSingleImage(
            [drawSingleImage(FillWhite(NewContext(s.canvas.width, s.canvas.height), inverted),
                             s, "B")
                EXCEPT !.globalCompositeOperation = "difference"],
            s, "A"),
        inverted)

\* Lines 915-917.
DrawCanvasWithAlpha(ctx, offCtx, alpha) ==
    [CtxDrawImage([ctx EXCEPT !.globalAlpha = alpha], offCtx, RInt(0), RInt(0),
                  RInt(offCtx.width), RInt(offCtx.height))
        EXCEPT !.globalAlpha = RInt(1)]

drawDifferenceComposite(ctx, s, inverted, alpha, contextOk) ==
    IF ~s.ctx \/ s.imageA = NoImage \/ s.imageB = NoImage THEN ctx
    ELSE IF ~contextOk THEN ctx
    ELSE DrawCanvasWithAlpha(ctx, DifferenceCanvas(s, inverted), alpha)

\* A faulty blend: B is drawn over A at full opacity.
RenderUnderBOpaque(ctx, s, alpha) ==
    [drawSingleImage([ctx EXCEPT !.globalAlpha = RInt(1)], s, "B")
        EXCEPT !.globalAlpha = RInt(1)]

\* Lines 624-626: B over the A just drawn, with alpha.
RenderUnderB(ctx, s, alpha) ==
    [drawSingleImage([ctx EXCEPT !.globalAlpha = alpha], s, "B")
        EXCEPT !.globalAlpha = RInt(1)]

\* A faulty blend: the blend operator is left at 'lighter'.
RenderOnionSkinBLighter(ctx, s, alpha) ==
    [drawSingleImage([ctx EXCEPT !.globalAlpha = alpha,
                                 !.globalCompositeOperation = "lighter"], s, "B")
        EXCEPT !.globalAlpha = RInt(1)]

\* Lines 632-637: B added to the A just drawn, with alpha.
RenderOnionSkinB(ctx, s, alpha) ==
    [drawSingleImage([ctx EXCEPT !.globalAlpha = alpha,
                                 !.globalCompositeOperation = "lighter"], s, "B")
        EXCEPT !.globalCompositeOperation = ctx.globalCompositeOperation,
               !.globalAlpha = RInt(1)]

\* Lines 620-653: the switch on compositeMode.
RenderMode(ctx, s, alpha, contextOk) ==
    CASE s.compositeMode = "Under" -> RenderUnderB(drawSingleImage(ctx, s, "A"), s, alpha)
      [] s.compositeMode = "OnionSkin" ->
             RenderOnionSkinB(drawSingleImage(ctx, s, "A"), s, alpha)
      [] s.compositeMode = "A" -> drawSingleImage(ctx, s, "A")
      [] s.compositeMode = "B" -> drawSingleImage(ctx, s, "B")
      [] s.compositeMode \in {"Diff", "InvDiff"} ->
             drawDifferenceComposite(ctx, s, s.compositeMode = "InvDiff", alpha, contextOk)

\* renderCompositeContent(state, alpha).  The call and its alpha are kept
\* with the drawing calls of the context.
renderCompositeContent(ctx, s, alpha, contextOk) ==
    IF ~s.ctx THEN ctx
    ELSE RenderMode(CtxDraw(ctx, [kind |-> "renderCompositeContent", alpha |-> alpha]),
                    s, alpha, contextOk)

\* Lines 297-304: B of mode Under.
SingleViewUnderB(ctx, s) ==
    IF s.imageBLoaded /\ s.imageB # NoImage
    THEN [drawSingleImage(IF s.imageALoaded /\ s.imageA # NoImage
                          THEN [ctx EXCEPT !.globalAlpha = s.wipeAlpha]
                          ELSE ctx,
                          s, "B")
             EXCEPT !.globalAlpha = RInt(1)]
    ELSE ctx

\* Lines 312-324: B of mode OnionSkin.
SingleViewOnionSkinB(ctx, s) ==
    IF s.imageBLoaded /\ s.imageB # NoImage
    THEN IF s.imageALoaded /\ s.imageA # NoImage
         THEN RenderOnionSkinB(ctx, s, s.wipeAlpha)
         ELSE [drawSingleImage(ctx, s, "B") EXCEPT !.globalAlpha = RInt(1)]
    ELSE ctx

\* Lines 281-283 and 294-296, 309-311: A when it is loaded.
SingleViewA(ctx, s) ==
    IF s.imageALoaded /\ s.imageA # NoImage THEN drawSingleImage(ctx, s, "A") ELSE ctx

drawSingleView(ctx, s, contextOk) ==
    IF ~s.ctx THEN ctx
    ELSE CASE s.compositeMode = "A" -> SingleViewA(ctx, s)
           [] s.compositeMode = "B" ->
                  IF s.imageBLoaded /\ s.imageB # NoImage
                  THEN drawSingleImage(ctx, s, "B") ELSE ctx
           [] s.compositeMode = "Under" -> SingleViewUnderB(SingleViewA(ctx, s), s)
           [] s.compositeMode = "OnionSkin" -> SingleViewOnionSkinB(SingleViewA(ctx, s), s)
           [] s.compositeMode \in {"Diff", "InvDiff"} ->
                  IF s.imageALoaded /\ s.imageBLoaded
                     /\ s.imageA # NoImage /\ s.imageB # NoImage
                  THEN drawDifferenceComposite(ctx, s, s.compositeMode = "InvDiff",
                                               RInt(1), contextOk)
                  ELSE ctx

----------------------------------------------------------------------------
(* drawing: draw, drawWipeView and the wipe's line and handles.            *)

TRANSLATION_HANDLE_RADIUS == 6

ROTATION_HANDLE_RADIUS == 4

ALPHA_HANDLE_RADIUS == 4

ROTATION_HANDLE_DISTANCE == 60

ALPHA_ARC_RADIUS == 40

ALPHA_ARC_START_ANGLE == 70

ALPHA_ARC_END_ANGLE == 20

\* drawCheckerboard: the pattern fills the rectangle, translated by the
\* offsets modulo the pattern's size (createPattern gives a pattern).
drawCheckerboard(ctx, width, height, offsetX, offsetY, squareSize) ==
    CtxDraw(ctx, [kind |-> "fillRect", fillStyle |-> "checkerboard",
                  squareSize |-> squareSize, offsetX |-> offsetX, offsetY |-> offsetY,
                  x |-> RInt(0), y |-> RInt(0),
                  width |-> RInt(width + 2 * squareSize),
                  height |-> RInt(height + 2 * squareSize)])

\* A stroke or a fill of the wipe's interface: white, of line width 1, with
\* a black shadow of blur 2 (lines 762-766 and 822-827).
CtxDrawUI(ctx, shape) ==
    CtxDraw(ctx, shape @@ [kind |-> "ui", lineWidth |-> 1, shadowBlur |-> 2])

\* drawWipeLine: the line through wipePos of direction (-sin, cos), drawn
\* each way from the projection of the canvas's centre for twice the
\* canvas's larger side.
drawWipeLine(ctx, wipePos, wipeAngleDeg) ==
    CtxDrawUI(ctx, [shape |-> "wipeLine", at |-> wipePos,
                    wipeAngleRad |-> TimesPiOver180(wipeAngleDeg),
                    lineLength |-> 2 * Max2(ctx.width, ctx.height)])

\* ui-constants: calculateRotationHandlePosition.
calculateRotationHandlePosition(wipePos, wipeAngleDeg) ==
    P(NAdd(wipePos.x, NMul(MathCos(TimesPiOver180(wipeAngleDeg)),
                           RInt(ROTATION_HANDLE_DISTANCE))),
      NAdd(wipePos.y, NMul(MathSin(TimesPiOver180(wipeAngleDeg)),
                           RInt(ROTATION_HANDLE_DISTANCE))))

\* ui-constants: calculateAlphaSliderPosition, the point of the alpha arc at
\* alphaAngle, kept as the arc's centre and radius and the angle in degrees
\* (degrees: the wipe angle; minus: the degrees subtracted from it).
calculateAlphaSliderPosition(wipePos, wipeAngleDeg, wipeAlpha) ==
    [centre |-> wipePos, radius |-> ALPHA_ARC_RADIUS,
     degrees |-> wipeAngleDeg,
     minus |-> NAdd(RInt(ALPHA_ARC_END_ANGLE),
                    NMul(NSub(RInt(1), wipeAlpha),
                         RInt(ALPHA_ARC_START_ANGLE - ALPHA_ARC_END_ANGLE)))]

\* Lines 836-869: the handles of the full wipe.
DrawFullWipeHandles(ctx, wipePos, wipeAngleDeg, s) ==
    CtxDrawUI(
      CtxDrawUI(
        CtxDrawUI(
          CtxDrawUI(ctx, [shape |-> "line", from |-> wipePos,
                          to |-> calculateRotationHandlePosition(wipePos, wipeAngleDeg)]),
          [shape |-> "disc", at |-> calculateRotationHandlePosition(wipePos, wipeAngleDeg),
           radius |-> ROTATION_HANDLE_RADIUS]),
        [shape |-> "arc", at |-> wipePos, radius |-> ALPHA_ARC_RADIUS,
         degrees |-> wipeAngleDeg,
         startMinus |-> ALPHA_ARC_START_ANGLE, endMinus |-> ALPHA_ARC_END_ANGLE]),
      [shape |-> "discOnArc",
       at |-> calculateAlphaSliderPosition(wipePos, wipeAngleDeg, s.wipeAlpha),
       radius |-> ALPHA_HANDLE_RADIUS])

\* drawWipeUIElements: the translation handle, and the handles of the full
\* wipe.
drawWipeUIElements(ctx, wipePos, wipeAngleDeg, s) ==
    IF s.isSimpleWipe
    THEN CtxDrawUI(ctx, [shape |-> "disc", at |-> wipePos,
                         radius |-> TRANSLATION_HANDLE_RADIUS])
    ELSE DrawFullWipeHandles(
             CtxDrawUI(ctx, [shape |-> "disc", at |-> wipePos,
                             radius |-> TRANSLATION_HANDLE_RADIUS]),
             wipePos, wipeAngleDeg, s)

\* A faulty weight: the slider's value whatever the wipe mode.
sliderAlpha(s) == s.wipeAlpha

\* Lines 375 (drawWipeView) and 152 (updateMagnifier): effectiveAlpha.
effectiveAlpha(s) == IF s.isSimpleWipe THEN RInt(1) ELSE s.wipeAlpha

\* Line 352: the wipe angle drawWipeView clips with.
WipeAngleRad(s) == IF s.isSimpleWipe THEN Num(0) ELSE TimesPiOver180(Num(s.wipeAngle))

\* Lines 367-390: the composite rendered off screen and copied.
WipeComposite(ctx, s, contextOk) ==
    IF contextOk
    THEN CtxDrawImage([ctx EXCEPT !.globalAlpha = RInt(1)],
                      renderCompositeContent(NewContext(s.canvas.width, s.canvas.height),
                                             s, effectiveAlpha(s), contextOk),
                      RInt(0), RInt(0), RInt(s.canvas.width), RInt(s.canvas.height))
    ELSE ctx

\* Lines 358-365: save, createWipeClippingPath, clip.
WipeClip(ctx, wipePos, wipeAngleRad, s) ==
    CtxClip([CtxSave(ctx) EXCEPT
                 !.path = createWipeClippingPath(ctx.path, wipePos, wipeAngleRad, s)])

\* Lines 396-402.
WipeUI(ctx, wipePos, s, drawUI) ==
    IF drawUI
    THEN drawWipeUIElements(drawWipeLine(ctx, wipePos, Num(s.wipeAngle)),
                            wipePos, Num(s.wipeAngle), s)
    ELSE ctx

drawWipeView(ctx, s, drawUI, contextOk) ==
    IF ~s.ctx \/ ~s.imageALoaded \/ ~s.imageBLoaded THEN ctx
    ELSE WipeUI(
             CtxRestore(
                 WipeComposite(
                     WipeClip(drawSingleImage(ctx, s, "A"),
                              getWipePositionInCanvasCoords(s), WipeAngleRad(s), s),
                     s, contextOk)),
             getWipePositionInCanvasCoords(s), s, drawUI)

\* Lines 139-149: the black background and the checkerboard.
DrawBackground(ctx, s) ==
    IF s.isCheckerboard
    THEN drawCheckerboard(CtxFillRect(ctx, "black", RInt(0), RInt(0),
                                      RInt(s.canvas.width), RInt(s.canvas.height)),
                          s.canvas.width, s.canvas.height, RInt(0), RInt(0),
                          IF s.checkerboardSquareSize = 0 THEN 10
                          ELSE s.checkerboardSquareSize)
    ELSE CtxFillRect(ctx, "black", RInt(0), RInt(0),
                     RInt(s.canvas.width), RInt(s.canvas.height))

\* Lines 152-164.
DrawView(ctx, s, drawUI, contextOk) ==
    IF ~s.imageALoaded /\ ~s.imageBLoaded THEN ctx
    ELSE IF s.isWipeEnabled /\ s.imageALoaded /\ s.imageBLoaded
    THEN drawWipeView(ctx, s, drawUI, contextOk)
    ELSE drawSingleView(ctx, s, contextOk)

draw(ctx, s, drawUI, contextOk) ==
    IF ~s.ctx THEN ctx
    ELSE DrawView(DrawBackground(ctx, s), s, drawUI, contextOk)

----------------------------------------------------------------------------
(* magnifier: updateMagnifier.                                             *)

\* Lines 28-30: the properties of the magnifier, with their fallbacks.
MagnifierRadius(s) == IF s.magnifierRadius = 0 THEN 200 ELSE s.magnifierRadius

MagnifierZoom(s) == IF s.magnifierZoomFactor = 0 THEN 8 ELSE s.magnifierZoomFactor

\* Lines 60-67 and 87-115: magnifierState, for the pointer at (x, y).
\* A faulty magnifierState: the offsets of the images are not zoomed.
MagnifierStateOwnOffsets(x, y, s) ==
    [s EXCEPT
        !.canvas = Canvas(2 * MagnifierRadius(s), 2 * MagnifierRadius(s)),
        !.scale = NMul(s.scale, RInt(MagnifierZoom(s))),
        !.offsetX = NSub(RInt(MagnifierRadius(s)),
                         NMul(NMul(NDiv(NSub(x, s.offsetX), s.scale), s.scale),
                              RInt(MagnifierZoom(s)))),
        !.offsetY = NSub(RInt(MagnifierRadius(s)),
                         NMul(NMul(NDiv(NSub(y, s.offsetY), s.scale), s.scale),
                              RInt(MagnifierZoom(s))))]

MagnifierState(x, y, s) ==
    [s EXCEPT
        !.canvas = Canvas(2 * MagnifierRadius(s), 2 * MagnifierRadius(s)),
        !.scale = NMul(s.scale, RInt(MagnifierZoom(s))),
        !.offsetX = NSub(RInt(MagnifierRadius(s)),
                         NMul(NMul(NDiv(NSub(x, s.offsetX), s.scale), s.scale),
                              RInt(MagnifierZoom(s)))),
        !.offsetY = NSub(RInt(MagnifierRadius(s)),
                         NMul(NMul(NDiv(NSub(y, s.offsetY), s.scale), s.scale),
                              RInt(MagnifierZoom(s)))),
        !.offsetAX = NMul(s.offsetAX, RInt(MagnifierZoom(s))),
        !.offsetAY = NMul(s.offsetAY, RInt(MagnifierZoom(s))),
        !.offsetBX = NMul(s.offsetBX, RInt(MagnifierZoom(s))),
        !.offsetBY = NMul(s.offsetBY, RInt(MagnifierZoom(s)))]

\* Lines 51-58: the black background and the circular clip.
MagnifierBackground(magCtx, radius) ==
    CtxClip([CtxSave(CtxFillRect(magCtx, "black", RInt(0), RInt(0),
                                 RInt(2 * radius), RInt(2 * radius)))
                EXCEPT !.path = <<[arc |-> TRUE, x |-> RInt(radius), y |-> RInt(radius),
                                   radius |-> radius]>>])

\* Lines 70-84.
MagnifierCheckerboard(magCtx, x, y, s) ==
    IF s.isCheckerboard
    THEN drawCheckerboard(magCtx, 2 * MagnifierRadius(s), 2 * MagnifierRadius(s),
                          NSub(x, RInt(MagnifierRadius(s))), NSub(y, RInt(MagnifierRadius(s))),
                          IF s.checkerboardSquareSize = 0 THEN 10
                          ELSE s.checkerboardSquareSize)
    ELSE magCtx

\* Lines 150-161: the composite in the clipped region.
MagnifierComposite(magCtx, s, magnifierState, contextOk) ==
    IF s.imageA # NoImage /\ s.imageALoaded /\ s.imageB # NoImage /\ s.imageBLoaded
    THEN renderCompositeContent(magCtx,
                                [magnifierState EXCEPT !.wipeAlpha = effectiveAlpha(s)],
                                effectiveAlpha(s), contextOk)
    ELSE magCtx

\* Lines 140-147: save, createWipeClippingPath, clip.
MagnifierWipeClip(magCtx, s, magnifierState) ==
    CtxClip([CtxSave(magCtx) EXCEPT
                 !.path = createWipeClippingPath(
                              magCtx.path, getWipePositionInCanvasCoords(magnifierState),
                              TimesPiOver180(Num(s.wipeAngle)), magnifierState)])

\* Lines 130-166: the wipe in the magnifier.
MagnifierWipe(magCtx, s, magnifierState, contextOk) ==
    drawWipeLine(
        CtxRestore(
            MagnifierComposite(
                MagnifierWipeClip(
                    IF s.imageA # NoImage /\ s.imageALoaded
                    THEN drawSingleImage(magCtx, magnifierState, "A")
                    ELSE magCtx,
                    s, magnifierState),
                s, magnifierState, contextOk)),
        getWipePositionInCanvasCoords(magnifierState),
        TimesPiOver180(Num(s.wipeAngle)))

\* Lines 118-173: the content for the mode.
MagnifierContent(magCtx, s, magnifierState, contextOk) ==
    IF s.compositeMode = "A"
    THEN IF s.imageA # NoImage /\ s.imageALoaded
         THEN drawSingleImage(magCtx, magnifierState, "A") ELSE magCtx
    ELSE IF s.compositeMode = "B"
    THEN IF s.imageB # NoImage /\ s.imageBLoaded
         THEN drawSingleImage(magCtx, magnifierState, "B") ELSE magCtx
    ELSE IF s.isWipeEnabled
    THEN MagnifierWipe(magCtx, s, magnifierState, contextOk)
    ELSE IF s.imageA # NoImage /\ s.imageALoaded /\ s.imageB # NoImage /\ s.imageBLoaded
    THEN renderCompositeContent(magCtx, magnifierState, s.wipeAlpha, contextOk)
    ELSE magCtx

\* Lines 178-192: the crosshair.
MagnifierCrosshair(magCtx, radius) ==
    CtxDraw(CtxDraw(magCtx, [kind |-> "crosshair",
                             from |-> P(RInt(0), RInt(radius)),
                             to |-> P(RInt(2 * radius), RInt(radius))]),
            [kind |-> "crosshair",
             from |-> P(RInt(radius), RInt(0)), to |-> P(RInt(radius), RInt(2 * radius))])

\* updateMagnifier(magnifierContainer, magnifierCanvas, x, y, state): the
\* context of the magnifier's canvas after the call, magCtx being that
\* context before it (magCtxOk: getContext('2d') gives it), and the
\* position given to the container.
updateMagnifier(magCtx, x, y, s, magCtxOk, contextOk) ==
    IF MagnifierZoom(s) <= 0
    THEN [ctx |-> magCtx, positioned |-> FALSE, left |-> RInt(0), top |-> RInt(0)]
    ELSE [ctx |->
              IF ~magCtxOk THEN magCtx
              ELSE MagnifierCrosshair(
                       CtxRestore(
                           MagnifierContent(
                               MagnifierCheckerboard(
                                   MagnifierBackground(magCtx, MagnifierRadius(s)),
                                   x, y, s),
                               s, MagnifierState(x, y, s), contextOk)),
                       MagnifierRadius(s)),
          positioned |-> TRUE,
          left |-> NSub(NSub(x, RInt(MagnifierRadius(s))),
                        RInt(IF s.magnifierBorderSize = 0 THEN 2 ELSE s.magnifierBorderSize)),
          top |-> NSub(NSub(y, RInt(MagnifierRadius(s))),
                       RInt(IF s.magnifierBorderSize = 0 THEN 2 ELSE s.magnifierBorderSize))]

----------------------------------------------------------------------------
(* The element: ImageComparisonElement.                                    *)

\* The initial value of the state field (lines 49-136), with the canvas and
\* its context as initDomReferences and initCanvas set them.
InitState ==
    [canvas |-> Canvas(CanvasWidth, CanvasHeight), ctx |-> TRUE,
     imageA |-> NoImage, imageB |-> NoImage,
     imageAData |-> NoData, imageBData |-> NoData,
     imageAMipMaps |-> NoMipMaps, imageBMipMaps |-> NoMipMaps,
     imageALoaded |-> FALSE, imageBLoaded |-> FALSE,
     scale |-> RInt(1),
     offsetX |-> RInt(0), offsetY |-> RInt(0),
     offsetAX |-> RInt(0), offsetAY |-> RInt(0),
     offsetBX |-> RInt(0), offsetBY |-> RInt(0),
     isWipeEnabled |-> TRUE, isSimpleWipe |-> FALSE,
     wipeAngle |-> 0,
     wipePositionInImageACoords |-> P(RInt(0), RInt(0)),
     wipeAlpha |-> RInt(1),
     isCheckerboard |-> FALSE,
     compositeMode |-> "Under",
     showHelp |-> TRUE,
     magnifierRadius |-> 200, magnifierZoomFactor |-> 8, magnifierBorderSize |-> 2,
     checkerboardSquareSize |-> 10]

\* A text of the PSNR banner.  Of the text 'PSNR: <psnr.toFixed(2)> dB' are
\* kept its frame and the mean squared error that psnr is computed from.
PsnrText(text) == [text |-> text, mse |-> RInt(0)]

PsnrDecibels(mse) == [text |-> "PSNR: dB", mse |-> mse]

\* The arguments of updatePSNR's latest call of calculatePSNRForImages, kept
\* beside the banner; made is FALSE before the first call.
NoPsnrArguments == [made |-> FALSE]

PsnrArgumentsOf(s) ==
    [made |-> TRUE,
     imageAData |-> s.imageAData, imageBData |-> s.imageBData,
     imageA |-> s.imageA, imageB |-> s.imageB,
     offsetAX |-> s.offsetAX, offsetAY |-> s.offsetAY,
     offsetBX |-> s.offsetBX, offsetBY |-> s.offsetBY, scale |-> s.scale]

\* The attributes of the element that the view handlers read.
AttributeNames ==
    {"display-mode", "wipe-mode", "wipe-angle", "wipe-alpha", "magnifier-zoom-factor"}

\* getAttribute of an attribute that is not set.
NoAttribute == "(null)"

\* The DOM and the private fields of the element, lines 126-170, 475 and 517.
InitDom ==
    [filenameA |-> <<"none", 0>>, filenameB |-> <<"none", 0>>,
     connected |-> FALSE,
     attributes |-> [name \in AttributeNames |-> NoAttribute],
     previousWipeAngle |-> 0, previousWipeAlpha |-> RInt(1),
     lastCompositeMode |-> "Under", modeInfo |-> "Under",
     showMagnifier |-> FALSE, magnifierHidden |-> TRUE,
     isDragging |-> FALSE, activeHandle |-> "none", dragSide |-> "none",
     dragStartX |-> RInt(0), dragStartY |-> RInt(0),
     accumulatedDX |-> RInt(0), accumulatedDY |-> RInt(0),
     lastMouseX |-> RInt(0), lastMouseY |-> RInt(0),
     psnrInfo |-> PsnrText("PSNR: -"),
     psnrArguments |-> NoPsnrArguments,
     dragMessageOpacity |-> 0,
     helpScreenDisplay |-> "flex",
     manuallyToggledHelp |-> FALSE]

\* The slot's fields of a state record.
SlotImage(s, t) == IF t = "A" THEN s.imageA ELSE s.imageB

SlotLoaded(s, t) == IF t = "A" THEN s.imageALoaded ELSE s.imageBLoaded

SlotMipMaps(s, t) == IF t = "A" THEN s.imageAMipMaps ELSE s.imageBMipMaps

\* loadImage, lines 928-938: clear the slot.
\* loadImage without line 932 / 937: the slot is emptied and its flag kept.
ClearSlotKeepingFlag(s, t) ==
    IF t = "A"
    THEN [s EXCEPT !.imageA = NoImage, !.imageAData = NoData, !.imageAMipMaps = NoMipMaps]
    ELSE [s EXCEPT !.imageB = NoImage, !.imageBData = NoData, !.imageBMipMaps = NoMipMaps]
ClearSlot(s, t) ==
    IF t = "A"
    THEN [s EXCEPT !.imageA = NoImage, !.imageAData = NoData,
                   !.imageAMipMaps = NoMipMaps, !.imageALoaded = FALSE]
    ELSE [s EXCEPT !.imageB = NoImage, !.imageBData = NoData,
                   !.imageBMipMaps = NoMipMaps, !.imageBLoaded = FALSE]

\* img.onload, lines 962-994: store the image and its pixel data.
StoreImage(s, t, img) ==
    IF t = "A"
    THEN [s EXCEPT !.imageA = img, !.imageALoaded = TRUE, !.imageAData = img.id]
    ELSE [s EXCEPT !.imageB = img, !.imageBLoaded = TRUE, !.imageBData = img.id]

\* The .then callback of createMipMaps, lines 1031-1039.
StoreMipMaps(s, t, mipMaps) ==
    IF t = "A" THEN [s EXCEPT !.imageAMipMaps = mipMaps]
               ELSE [s EXCEPT !.imageBMipMaps = mipMaps]

\* updateHelpScreenVisibility: the state and the DOM after it.
updateHelpScreenVisibility(s, d) ==
    IF s.imageALoaded \/ s.imageBLoaded
    THEN IF s.showHelp /\ ~d.manuallyToggledHelp
         THEN [state |-> [s EXCEPT !.showHelp = FALSE],
               dom |-> [d EXCEPT !.helpScreenDisplay = "none"]]
         ELSE IF s.showHelp
         THEN [state |-> s, dom |-> [d EXCEPT !.helpScreenDisplay = "flex"]]
         ELSE [state |-> s, dom |-> [d EXCEPT !.helpScreenDisplay = "none"]]
    ELSE [state |-> s,
          dom |-> [d EXCEPT !.helpScreenDisplay = "flex", !.manuallyToggledHelp = FALSE]]

\* updatePSNR: the DOM after it.  The banner is set to 'PSNR: N/A'.  The
\* function given to calculatePSNRForImages as a tenth argument is never
\* called: calculatePSNRForImages has nine parameters and returns the text,
\* which updatePSNR does not use.
updatePSNR(s, d) ==
    [d EXCEPT !.psnrInfo = PsnrText("PSNR: N/A"),
              !.psnrArguments = PsnrArgumentsOf(s)]

\* centerWipePosition: the canvas centre in image-A coordinates.
centerWipePosition(s) ==
    [s EXCEPT !.wipePositionInImageACoords =
        canvasToImageCoords(NDiv(RInt(s.canvas.width), RInt(2)),
                            NDiv(RInt(s.canvas.height), RInt(2)), "A", s)]

\* fitImagesToViewport.
fitImagesToViewport(s) ==
    IF ~s.imageALoaded /\ ~s.imageBLoaded THEN s
    ELSE LET imageWidth  == IF s.imageALoaded THEN s.imageA.width ELSE s.imageB.width
             imageHeight == IF s.imageALoaded THEN s.imageA.height ELSE s.imageB.height
             scaleX == NDiv(RInt(s.canvas.width), RInt(imageWidth))
             scaleY == NDiv(RInt(s.canvas.height), RInt(imageHeight))
             scale  == NMul(RMin(scaleX, scaleY), Rat(9, 10))
         IN  IF imageWidth = 0 \/ imageHeight = 0 THEN s
             ELSE [s EXCEPT
                     !.scale = scale,
                     !.offsetX = NDiv(NSub(RInt(s.canvas.width),
                                           NMul(RInt(imageWidth), scale)), RInt(2)),
                     !.offsetY = NDiv(NSub(RInt(s.canvas.height),
                                           NMul(RInt(imageHeight), scale)), RInt(2))]

\* No function is being applied to a state: the element is running.
NoCall == [fn |-> "none"]

NoResult == [fn |-> "none"]

Init ==
    /\ state = InitState
    /\ images = <<>>
    /\ builds = {}
    /\ dom = InitDom
    /\ prec = 0
    /\ call = NoCall
    /\ result = NoResult

\* loadImage(url, imageType): clears the slot, shows the loading message and
\* starts the load of a new Image.
loadImage(url, imageType) ==
    /\ call = NoCall
    /\ Len(images) < MaxLoads
    /\ state' = ClearSlot(state, imageType)
    /\ dom' = [dom EXCEPT !.dragMessageOpacity = 1]
    /\ images' = Append(images, [url |-> url, imageType |-> imageType,
                                 status |-> "loading"])
    /\ UNCHANGED <<builds, prec, call, result>>

\* img.onload of the Image of load i, with the microtask that follows it:
\* when createMipMaps resolves at once, its .then callback runs before any
\* other event.
imgOnLoad(i, ctxOk) ==
    /\ call = NoCall
    /\ images[i].status = "loading"
    /\ LET t   == images[i].imageType
           img == Image(i, UrlWidth(images[i].url), UrlHeight(images[i].url))
           s1  == StoreImage(state, t, img)
           d1  == [dom EXCEPT ![IF t = "A" THEN "filenameA" ELSE "filenameB"] =
                                  <<"name", images[i].url>>]
           hv  == updateHelpScreenVisibility(s1, d1)
           s2  == centerWipePosition(hv.state)
           s3  == fitImagesToViewport(s2)
           d3  == [(IF s3.imageALoaded /\ s3.imageBLoaded
                     THEN updatePSNR(s3, hv.dom) ELSE hv.dom)
                      EXCEPT !.dragMessageOpacity = 0]
           mm  == createMipMaps(img, ctxOk)
       IN  /\ images' = [images EXCEPT ![i].status = "loaded"]
           /\ dom' = d3
           /\ IF mm.done
              THEN /\ state' = StoreMipMaps(s3, t, mm.mipMaps)
                   /\ UNCHANGED builds
              ELSE /\ state' = s3
                   /\ builds' = builds \cup
                        {[img |-> i, imageType |-> t, mipMaps |-> mm.mipMaps,
                          width |-> mm.width, height |-> mm.height]}
    /\ UNCHANGED <<prec, call, result>>

\* img.onerror of the Image of load i.
imgOnError(i) ==
    /\ call = NoCall
    /\ images[i].status = "loading"
    /\ images' = [images EXCEPT ![i].status = "error"]
    /\ dom' = [dom EXCEPT !.dragMessageOpacity = 0,
                          ![IF images[i].imageType = "A" THEN "filenameA" ELSE "filenameB"] =
                              <<"error", images[i].url>>]
    /\ UNCHANGED <<state, builds, prec, call, result>>

\* img.onload of a pyramid level (createMipMaps, lines 68-71): push the level
\* and call createNextLevel; when that resolves the promise, the .then
\* callback of loadImage stores the pyramid in the slot the load was for.
levelOnLoad(b, ctxOk) ==
    /\ call = NoCall
    /\ b \in builds
    /\ LET pushed == Append(b.mipMaps, Raster(b.img, Len(b.mipMaps), b.width, b.height))
           nx == createNextLevel(pushed, b.width, b.height, ctxOk)
       IN  IF nx.done
           THEN /\ state' = StoreMipMaps(state, b.imageType, nx.mipMaps)
                /\ builds' = builds \ {b}
           ELSE /\ builds' = (builds \ {b}) \cup
                      {[b EXCEPT !.mipMaps = nx.mipMaps, !.width = nx.width, !.height = nx.height]}
                /\ UNCHANGED state
    /\ UNCHANGED <<images, dom, prec, call, result>>

LoadImage == \E url \in Urls, imageType \in ImageTypes : loadImage(url, imageType)

ImgOnLoad == \E i \in 1..Len(images), ctxOk \in BOOLEAN : imgOnLoad(i, ctxOk)

ImgOnError == \E i \in 1..Len(images) : imgOnError(i)

LevelOnLoad == \E b \in builds, ctxOk \in BOOLEAN : levelOnLoad(b, ctxOk)

Next == LoadImage \/ ImgOnLoad \/ ImgOnError \/ LevelOnLoad

Spec == Init /\ [][Next]_vars

----------------------------------------------------------------------------
(* The view state: attributes, keys, the wheel and the reset.  A view is    *)
(* the pair of the ElementState and the element's private fields and DOM.   *)

View(s, d) == [state |-> s, dom |-> d]

\* NaN among the numbers of the wipe alpha.
NaN == <<0, 0>>

IsNaN(x) == x[2] = 0

\* Math.min and Math.max of two numbers.
MathMin(a, b) == IF IsNaN(a) \/ IsNaN(b) THEN NaN ELSE RMin(a, b)

MathMax(a, b) == IF IsNaN(a) \/ IsNaN(b) THEN NaN ELSE RMax(a, b)

\* parseFloat of the attribute strings of the model.
parseFloat(value) ==
    CASE value = "0" -> RInt(0)
      [] value = "1" -> RInt(1)
      [] value = "0.5" -> Rat(1, 2)
      [] value = "2" -> RInt(2)
      [] value = "-1" -> RInt(-1)
      [] value = "90" -> RInt(90)
      [] OTHER -> NaN

\* setDisplayMode.
setDisplayMode(v, mode) ==
    LET s == v.state
        d == v.dom
        toAB == mode \in {"A", "B"} /\ s.compositeMode \notin {"A", "B"}
        d1 == [d EXCEPT
                 !.lastCompositeMode = IF toAB THEN s.compositeMode ELSE @,
                 !.previousWipeAngle = IF toAB /\ s.isWipeEnabled THEN s.wipeAngle ELSE @,
                 !.previousWipeAlpha = IF toAB /\ s.isWipeEnabled THEN s.wipeAlpha ELSE @,
                 !.modeInfo = mode]
        fromAB == s.compositeMode \in {"A", "B"}
    IN  IF mode \in {"A", "B"}
        THEN View([s EXCEPT !.compositeMode = mode, !.isWipeEnabled = FALSE], d1)
        ELSE IF ~fromAB
        THEN View([s EXCEPT !.compositeMode = mode, !.isWipeEnabled = TRUE], d1)
        ELSE IF s.isSimpleWipe
        THEN View([s EXCEPT !.compositeMode = mode, !.isWipeEnabled = TRUE,
                            !.wipeAngle = 0], d1)
        ELSE View([s EXCEPT !.compositeMode = mode, !.isWipeEnabled = TRUE,
                            !.wipeAngle = d1.previousWipeAngle,
                            !.wipeAlpha = d1.previousWipeAlpha], d1)

\* A faulty setWipeMode: the composite mode of an A or B view is kept.
setWipeModeKeepingMode(v, isSimple) ==
    LET s == v.state
        d == v.dom
        store == isSimple /\ ~s.isSimpleWipe
        d1 == [d EXCEPT
                 !.previousWipeAngle = IF store THEN s.wipeAngle ELSE @,
                 !.previousWipeAlpha = IF store THEN s.wipeAlpha ELSE @]
    IN  IF isSimple
        THEN View([s EXCEPT !.isWipeEnabled = TRUE, !.isSimpleWipe = TRUE, !.wipeAngle = 0], d1)
        ELSE View([s EXCEPT !.isWipeEnabled = TRUE, !.isSimpleWipe = FALSE,
                            !.wipeAngle = d1.previousWipeAngle,
                            !.wipeAlpha = d1.previousWipeAlpha], d1)
\* setWipeMode.
setWipeMode(v, isSimple) ==
    LET s == v.state
        d == v.dom
        store == isSimple /\ ~s.isSimpleWipe
        d1 == [d EXCEPT
                 !.previousWipeAngle = IF store THEN s.wipeAngle ELSE @,
                 !.previousWipeAlpha = IF store THEN s.wipeAlpha ELSE @]
        s1 == IF isSimple
              THEN [s EXCEPT !.isWipeEnabled = TRUE, !.isSimpleWipe = TRUE, !.wipeAngle = 0]
              ELSE [s EXCEPT !.isWipeEnabled = TRUE, !.isSimpleWipe = FALSE,
                             !.wipeAngle = d1.previousWipeAngle,
                             !.wipeAlpha = d1.previousWipeAlpha]
    IN  IF s1.compositeMode \in {"A", "B"}
        THEN View([s1 EXCEPT !.compositeMode = d1.lastCompositeMode],
                  [d1 EXCEPT !.modeInfo = d1.lastCompositeMode])
        ELSE View(s1, d1)

\* setWipeAngle; the angles of the model are whole numbers of degrees.
setWipeAngle(v, angle) ==
    View([v.state EXCEPT !.wipeAngle = angle],
         [v.dom EXCEPT !.previousWipeAngle = angle])

\* setWipeAlpha.
setWipeAlpha(v, alpha) ==
    View([v.state EXCEPT !.wipeAlpha = MathMax(RInt(0), MathMin(RInt(1), alpha))],
         [v.dom EXCEPT !.previousWipeAlpha = MathMax(RInt(0), MathMin(RInt(1), alpha))])

\* The element's updateMagnifier(x, y), lines 2012-2018: the container is
\* shown once the module's updateMagnifier has run.
ShowMagnifierContainer(v) ==
    IF v.dom.showMagnifier THEN View(v.state, [v.dom EXCEPT !.magnifierHidden = FALSE])
    ELSE v

\* A faulty setter: the magnifier is left as it is.
setMagnifierZoomFactorOnly(v, zoomFactor) ==
    View([v.state EXCEPT !.magnifierZoomFactor = zoomFactor], v.dom)

\* setMagnifierZoomFactor; the factors of the model are whole numbers.
setMagnifierZoomFactor(v, zoomFactor) ==
    IF zoomFactor <= 0 /\ v.dom.showMagnifier
    THEN View([v.state EXCEPT !.magnifierZoomFactor = zoomFactor],
              [v.dom EXCEPT !.showMagnifier = FALSE, !.magnifierHidden = TRUE])
    ELSE IF /\ zoomFactor > 0 /\ v.dom.showMagnifier
            /\ v.dom.lastMouseX # RInt(0) /\ v.dom.lastMouseY # RInt(0)
    THEN ShowMagnifierContainer(
             View([v.state EXCEPT !.magnifierZoomFactor = zoomFactor], v.dom))
    ELSE View([v.state EXCEPT !.magnifierZoomFactor = zoomFactor], v.dom)

\* setNumericAttribute, for the attributes wipe-angle, wipe-alpha and
\* magnifier-zoom-factor.
setNumericAttribute(v, name, value) ==
    IF value = NoAttribute \/ IsNaN(parseFloat(value)) THEN v
    ELSE CASE name = "wipe-angle" -> setWipeAngle(v, Floor(parseFloat(value)))
           [] name = "wipe-alpha" -> setWipeAlpha(v, parseFloat(value))
           [] name = "magnifier-zoom-factor" ->
                  setMagnifierZoomFactor(v, Floor(parseFloat(value)))
           [] OTHER -> v

\* attributeChangedCallback, for the attributes of the model.
attributeChangedCallback(v, name, oldValue, newValue) ==
    IF oldValue = newValue THEN v
    ELSE CASE name = "display-mode" ->
                IF newValue # NoAttribute THEN setDisplayMode(v, newValue) ELSE v
           [] name = "wipe-mode" -> setWipeMode(v, newValue = "simple")
           [] OTHER -> setNumericAttribute(v, name, newValue)

\* this.setAttribute(name, value): the attribute is set and the callback runs.
setAttribute(v, name, value) ==
    attributeChangedCallback(
        View(v.state, [v.dom EXCEPT !.attributes[name] = value]),
        name, v.dom.attributes[name], value)

\* processAttributes, for an element whose attributes image-a, image-b,
\* wipe-position-x, wipe-position-y, magnifier-radius, magnifier-border-size
\* and checkerboard-square-size are not set.
ProcessMagnifierZoomFactor(v) ==
    IF v.dom.attributes["magnifier-zoom-factor"] # NoAttribute
    THEN setMagnifierZoomFactor(
             v, Floor(parseFloat(v.dom.attributes["magnifier-zoom-factor"])))
    ELSE v

ProcessWipeAlpha(v) ==
    IF v.dom.attributes["wipe-alpha"] # NoAttribute
    THEN ProcessMagnifierZoomFactor(
             setWipeAlpha(v, parseFloat(v.dom.attributes["wipe-alpha"])))
    ELSE ProcessMagnifierZoomFactor(v)

ProcessWipeAngle(v) ==
    IF v.dom.attributes["wipe-angle"] # NoAttribute
    THEN ProcessWipeAlpha(setWipeAngle(v, Floor(parseFloat(v.dom.attributes["wipe-angle"]))))
    ELSE ProcessWipeAlpha(v)

ProcessWipeMode(v) ==
    IF v.dom.attributes["wipe-mode"] # NoAttribute
    THEN ProcessWipeAngle(setWipeMode(v, v.dom.attributes["wipe-mode"] = "simple"))
    ELSE ProcessWipeAngle(v)

processAttributes(v) ==
    IF v.dom.attributes["display-mode"] # NoAttribute
    THEN ProcessWipeMode(setDisplayMode(v, v.dom.attributes["display-mode"]))
    ELSE ProcessWipeMode(v)

\* connectedCallback; the element has the size of the canvas.
HelpAfter(v) == updateHelpScreenVisibility(v.state, v.dom)

connectedCallback(v) == HelpAfter(processAttributes(v))

\* resetView, lines 2288-2310: the scale and the offset that fit the image.
FitImage(s, image) ==
    [s EXCEPT
       !.scale = NMul(RMin(NDiv(RInt(s.canvas.width), RInt(image.width)),
                           NDiv(RInt(s.canvas.height), RInt(image.height))), Rat(9, 10)),
       !.offsetX = NDiv(NSub(RInt(s.canvas.width),
                             NMul(RInt(image.width),
                                  NMul(RMin(NDiv(RInt(s.canvas.width), RInt(image.width)),
                                            NDiv(RInt(s.canvas.height), RInt(image.height))),
                                       Rat(9, 10)))), RInt(2)),
       !.offsetY = NDiv(NSub(RInt(s.canvas.height),
                             NMul(RInt(image.height),
                                  NMul(RMin(NDiv(RInt(s.canvas.width), RInt(image.width)),
                                            NDiv(RInt(s.canvas.height), RInt(image.height))),
                                       Rat(9, 10)))), RInt(2))]

ResetCentre(s) ==
    IF s.imageALoaded /\ s.imageA # NoImage THEN FitImage(s, s.imageA)
    ELSE IF s.imageBLoaded /\ s.imageB # NoImage THEN FitImage(s, s.imageB)
    ELSE s

ResetWipePosition(s) == IF s.imageALoaded THEN centerWipePosition(s) ELSE s

ResetEnd(v) ==
    View(ResetWipePosition(ResetCentre(v.state)),
         updatePSNR(ResetWipePosition(ResetCentre(v.state)), v.dom))

\* resetView.
resetView(v) ==
    IF ~v.state.imageALoaded /\ ~v.state.imageBLoaded THEN v
    ELSE ResetEnd(
           setAttribute(
             setAttribute(
               setAttribute(
                 View([v.state EXCEPT
                          !.scale = RInt(1),
                          !.offsetX = RInt(0), !.offsetY = RInt(0),
                          !.offsetAX = RInt(0), !.offsetAY = RInt(0),
                          !.offsetBX = RInt(0), !.offsetBY = RInt(0),
                          !.wipeAngle = 0, !.wipeAlpha = RInt(1),
                          !.isSimpleWipe = FALSE], v.dom),
                 "wipe-angle", "0"),
               "wipe-alpha", "1"),
             "wipe-mode", "full"))

\* handleKeyDown; key is e.key.toLowerCase().
handleKeyDown(v, key) ==
    CASE key = "v" -> IF v.state.isSimpleWipe
                      THEN View(centerWipePosition(v.state), v.dom)
                      ELSE setWipeMode(v, TRUE)
      [] key = "w" -> IF ~v.state.isSimpleWipe /\ v.state.isWipeEnabled
                      THEN View(centerWipePosition(v.state), v.dom)
                      ELSE setWipeMode(v, FALSE)
      [] key = "a" -> setDisplayMode(v, "A")
      [] key = "b" -> setDisplayMode(v, "B")
      [] key = "u" -> setDisplayMode(v, "Under")
      [] key = "o" -> setDisplayMode(v, "OnionSkin")
      [] key = "d" -> setDisplayMode(v, "Diff")
      [] key = "i" -> setDisplayMode(v, "InvDiff")
      [] key = "c" -> View([v.state EXCEPT !.isCheckerboard = ~@], v.dom)
      [] key = "r" -> resetView(v)
      [] key \in {"h", "?"} ->
             updateHelpScreenVisibility([v.state EXCEPT !.showHelp = ~@],
                                        [v.dom EXCEPT !.manuallyToggledHelp = TRUE])
      [] key = "control" ->
             IF v.state.magnifierZoomFactor > 0
             THEN View(v.state, [v.dom EXCEPT !.showMagnifier = TRUE,
                                              !.magnifierHidden = FALSE])
             ELSE v
      [] OTHER -> v

\* Math.pow(zoomPerWheelDelta, -e.deltaY) for the wheel deltas of the model,
\* to two digits: 1.00152 ^ 456 = 1.9989.
WheelDeltas == {-456, 456}

WheelZoomFactor(deltaY) == IF deltaY > 0 THEN Rat(1, 2) ELSE RInt(2)

\* A faulty zoom: about the origin of the canvas.
ZoomedAboutOrigin(s, scaleRatio, newScale, mouseX, mouseY) ==
    [s EXCEPT
       !.scale = newScale,
       !.offsetX = NMul(scaleRatio, s.offsetX),
       !.offsetY = NMul(scaleRatio, s.offsetY),
       !.offsetAX = NMul(s.offsetAX, scaleRatio), !.offsetAY = NMul(s.offsetAY, scaleRatio),
       !.offsetBX = NMul(s.offsetBX, scaleRatio), !.offsetBY = NMul(s.offsetBY, scaleRatio)]

\* handleWheel, with the mouse at (mouseX, mouseY) of the canvas.
ZoomedBy(s, scaleRatio, newScale, mouseX, mouseY) ==
    [s EXCEPT
       !.scale = newScale,
       !.offsetX = NSub(mouseX, NMul(scaleRatio, NSub(mouseX, s.offsetX))),
       !.offsetY = NSub(mouseY, NMul(scaleRatio, NSub(mouseY, s.offsetY))),
       !.offsetAX = NMul(s.offsetAX, scaleRatio), !.offsetAY = NMul(s.offsetAY, scaleRatio),
       !.offsetBX = NMul(s.offsetBX, scaleRatio), !.offsetBY = NMul(s.offsetBY, scaleRatio)]

handleWheel(v, deltaY, mouseX, mouseY) ==
    IF ~v.state.imageALoaded /\ ~v.state.imageBLoaded THEN v
    ELSE ShowMagnifierContainer(
             View(ZoomedBy(v.state,
                           NDiv(NMul(v.state.scale, WheelZoomFactor(deltaY)), v.state.scale),
                           NMul(v.state.scale, WheelZoomFactor(deltaY)), mouseX, mouseY),
                  v.dom))

----------------------------------------------------------------------------
(* The handlers of the view state applied to an element that is new or has *)
(* its images loaded.                                                      *)

MaxZoom == 4         \* the wheel keeps the scale within 1/MaxZoom .. MaxZoom

\* img.onload for an image of a slot, its pyramid built.
AfterOnLoad(v, t, img) ==
    LET hv == updateHelpScreenVisibility(
                  StoreImage(v.state, t, img),
                  [v.dom EXCEPT ![IF t = "A" THEN "filenameA" ELSE "filenameB"] =
                                    <<"name", img.id>>])
        s3 == fitImagesToViewport(centerWipePosition(hv.state))
    IN  View(StoreMipMaps(s3, t, Pyramid(img, 0)),
             [(IF s3.imageALoaded /\ s3.imageBLoaded
               THEN updatePSNR(s3, hv.dom) ELSE hv.dom)
                EXCEPT !.dragMessageOpacity = 0])

ViewsAtStart ==
    { View(InitState, InitDom),
      AfterOnLoad(View(InitState, InitDom), "B", Image(1, 2, 2)),
      AfterOnLoad(AfterOnLoad(View(InitState, InitDom), "A", Image(1, 8, 4)),
                  "B", Image(2, 2, 2)) }

AttributeValues(name) ==
    CASE name = "display-mode" -> {"A", "Diff"}
      [] name = "wipe-mode" -> {"simple", "full"}
      [] name = "wipe-angle" -> {"90"}
      [] name = "wipe-alpha" -> {"0.5", "2", "abc"}
      [] OTHER -> {}

Keys == {"v", "w", "a", "u", "r", "c"}

InitView ==
    /\ prec = 0
    /\ \E v \in ViewsAtStart : state = v.state /\ dom = v.dom
    /\ images = <<>>
    /\ builds = {}
    /\ call = [fn |-> "view"]
    /\ result = NoResult

\* The view v is the element's next state.
Becomes(v) ==
    /\ state' = v.state
    /\ dom' = v.dom
    /\ UNCHANGED <<images, builds, prec, call, result>>

\* A script or the parser sets an attribute of the element.
AttributeChanged ==
    /\ call.fn = "view"
    /\ \E name \in AttributeNames : \E value \in AttributeValues(name) :
           Becomes(setAttribute(View(state, dom), name, value))

\* The element is connected to the document.
ConnectedCallback ==
    /\ call.fn = "view"
    /\ ~dom.connected
    /\ Becomes(connectedCallback(View(state, [dom EXCEPT !.connected = TRUE])))

HandleKeyDown ==
    /\ call.fn = "view"
    /\ \E key \in Keys : Becomes(handleKeyDown(View(state, dom), key))

\* A wheel event with the mouse at the centre of the canvas.
HandleWheel ==
    /\ call.fn = "view"
    /\ \E deltaY \in WheelDeltas :
           /\ RLe(Rat(1, MaxZoom), NMul(state.scale, WheelZoomFactor(deltaY)))
           /\ RLe(NMul(state.scale, WheelZoomFactor(deltaY)), RInt(MaxZoom))
           /\ Becomes(handleWheel(View(state, dom), deltaY,
                                  NDiv(RInt(state.canvas.width), RInt(2)),
                                  NDiv(RInt(state.canvas.height), RInt(2))))

NextView == AttributeChanged \/ ConnectedCallback \/ HandleKeyDown \/ HandleWheel

SpecView == InitView /\ [][NextView]_vars

----------------------------------------------------------------------------
(* The clipping geometry applied to the states of a bounded set, the way   *)
(* drawWipeView applies it.                                                *)

GridMax == 3         \* wipe positions (image-A coordinates) range over -1 .. GridMax

MaxOffset == 1       \* offsets of the view and of image B range over 0 .. MaxOffset

\* A state with both images loaded.
LoadedState(wA, hA, wB, hB) ==
    [InitState EXCEPT
        !.imageA = Image(1, wA, hA), !.imageALoaded = TRUE, !.imageAData = 1,
        !.imageB = Image(2, wB, hB), !.imageBLoaded = TRUE, !.imageBData = 2,
        !.showHelp = FALSE]

ClipStates ==
    { [LoadedState(2, 2, sz[1], sz[2]) EXCEPT
          !.scale = sc,
          !.offsetX = RInt(ox), !.offsetBY = RInt(oy),
          !.wipePositionInImageACoords = P(RInt(wx), RInt(wy)),
          !.wipeAngle = a] :
        sz \in {<<2, 2>>, <<4, 2>>}, sc \in {RInt(1), Rat(1, 2)},
        ox \in 0..MaxOffset, oy \in 0..MaxOffset,
        wx \in -1..GridMax, wy \in -1..GridMax, a \in WipeAngles }

\* Image B 100 x 100 at the origin, scale 1, the wipe centre at (150, 50),
\* angle 0.
StateWipeRightOfImage ==
    [LoadedState(100, 100, 100, 100) EXCEPT
        !.canvas = Canvas(200, 100),
        !.wipePositionInImageACoords = P(RInt(150), RInt(50))]

InitClip ==
    /\ state \in ClipStates \cup {StateWipeRightOfImage}
    /\ images = <<>>
    /\ builds = {}
    /\ dom = InitDom
    /\ prec = 0
    /\ call = [fn |-> "createWipeClippingPath"]
    /\ result = NoResult

\* The state with the wipe angle turned by 180 degrees: the normal negated.
OppositeSide(s) == [s EXCEPT !.wipeAngle = (s.wipeAngle + 180) % 360]

\* drawWipeView's call of createWipeClippingPath (lines 351-362), and the
\* same call for the opposite half-plane.
CreateWipeClippingPath ==
    /\ call.fn = "createWipeClippingPath"
    /\ result = NoResult
    /\ result' =
         [fn |-> "createWipeClippingPath",
          path |-> createWipeClippingPath(<<>>, getWipePositionInCanvasCoords(state),
                                          WipeAngleRad(state), state),
          opposite |-> createWipeClippingPath(<<>>, getWipePositionInCanvasCoords(state),
                                              WipeAngleRad(OppositeSide(state)),
                                              OppositeSide(state))]
    /\ UNCHANGED <<state, images, builds, dom, prec, call>>

NextClip == CreateWipeClippingPath

SpecClip == InitClip /\ [][NextClip]_vars

\* Twice the signed area of a polygon (the shoelace sum), and its area.
RECURSIVE Shoelace(_, _)
Shoelace(pts, k) ==
    IF k > Len(pts) THEN RInt(0)
    ELSE LET a == pts[k]
             b == pts[IF k = Len(pts) THEN 1 ELSE k + 1]
         IN  RAdd(RSub(RMul(a.x, b.y), RMul(b.x, a.y)), Shoelace(pts, k + 1))

PolygonArea(pts) == RDiv(RAbs(Shoelace(pts, 1)), RInt(2))

\* The area of image B's rectangle on the canvas.
ImageBArea(s) ==
    RMul(RMul(RInt(s.imageB.width), s.scale), RMul(RInt(s.imageB.height), s.scale))

----------------------------------------------------------------------------
(* The coordinate transforms composed both ways, in arithmetic that rounds *)
(* every result to MantissaBits significant bits (the program's numbers    *)
(* are IEEE-754 doubles, of 53 significant bits, rounded the same way).    *)

MantissaBits == 4

\* Numbers exact in MantissaBits bits.
XformScales == {RInt(1), Rat(1, 2), RInt(3), Rat(7, 4), RInt(5)}

XformOffsets == {RInt(0), RInt(1), Rat(-5, 2)}

XformCoords == {RInt(0), RInt(1), RInt(3), Rat(7, 2), RInt(-6)}

XformStates ==
    { [LoadedState(2, 2, 2, 2) EXCEPT
          !.scale = sc, !.offsetX = ox, !.offsetY = oy,
          !.offsetAX = oa, !.offsetAY = RInt(1),
          !.offsetBX = RInt(3), !.offsetBY = ob] :
        sc \in XformScales, ox \in XformOffsets, oy \in {RInt(0), RInt(7)},
        oa \in {RInt(0), RInt(1)}, ob \in {RInt(0), Rat(-5, 2)} }

InitXform ==
    /\ state \in XformStates
    /\ images = <<>>
    /\ builds = {}
    /\ dom = InitDom
    /\ prec = MantissaBits
    /\ call \in { [fn |-> "roundTrip", imageType |-> t, p |-> P(x, y)] :
                    t \in ImageTypes, x \in XformCoords, y \in {RInt(1), RInt(5)} }
    /\ result = NoResult

\* imageToCanvasCoords(canvasToImageCoords(p)) for a canvas point p.
CanvasRoundTrip ==
    /\ call.fn = "roundTrip"
    /\ result = NoResult
    /\ LET q == canvasToImageCoords(call.p.x, call.p.y, call.imageType, state)
       IN  result' = [fn |-> "canvasRoundTrip",
                      point |-> imageToCanvasCoords(q.x, q.y, call.imageType, state)]
    /\ UNCHANGED <<state, images, builds, dom, prec, call>>

\* canvasToImageCoords(imageToCanvasCoords(q)) for an image point q.
ImageRoundTrip ==
    /\ call.fn = "roundTrip"
    /\ result = NoResult
    /\ LET c == imageToCanvasCoords(call.p.x, call.p.y, call.imageType, state)
       IN  result' = [fn |-> "imageRoundTrip",
                      point |-> canvasToImageCoords(c.x, c.y, call.imageType, state)]
    /\ UNCHANGED <<state, images, builds, dom, prec, call>>

NextXform == CanvasRoundTrip \/ ImageRoundTrip

SpecXform == InitXform /\ [][NextXform]_vars

----------------------------------------------------------------------------
(* renderImageWithMipMaps applied to the pyramids createMipMaps builds.    *)

MaxImageSize == 16   \* the largest width or height of an image drawn

MipImageSizes == {<<2, 2>>, <<4, 4>>, <<5, 3>>, <<8, 4>>, <<9, MaxImageSize>>,
                  <<MaxImageSize, MaxImageSize>>}

MipScales == {RInt(2), RInt(1), Rat(3, 4), Rat(1, 2), Rat(3, 8), Rat(1, 3), Rat(1, 4),
              Rat(1, 5), Rat(1, 8), Rat(1, 16), Rat(1, 32), Rat(1, 64)}

InitMip ==
    /\ \E sz \in MipImageSizes, failAt \in 0..3, sc \in MipScales :
           /\ state = [LoadedState(sz[1], sz[2], 2, 2) EXCEPT
                           !.imageAMipMaps = Pyramid(Image(1, sz[1], sz[2]), failAt),
                           !.scale = sc]
           /\ call = [fn |-> "renderImageWithMipMaps", failAt |-> failAt]
    /\ images = <<>>
    /\ builds = {}
    /\ dom = InitDom
    /\ prec = 0
    /\ result = NoResult

\* drawSingleImage's call of renderImageWithMipMaps for image A (lines
\* 682-692), on a context of the canvas's size.
RenderImageWithMipMaps ==
    /\ call.fn = "renderImageWithMipMaps"
    /\ result = NoResult
    /\ result' = [fn |-> "renderImageWithMipMaps",
                  ctx |-> drawSingleImage(NewContext(state.canvas.width, state.canvas.height),
                                          state, "A")]
    /\ UNCHANGED <<state, images, builds, dom, prec, call>>

NextMip == RenderImageWithMipMaps

SpecMip == InitMip /\ [][NextMip]_vars

----------------------------------------------------------------------------
(* The renderer applied to the states of a bounded set: draw and           *)
(* updateMagnifier as the element calls them, and renderCompositeContent   *)
(* and drawSingleView on their own.                                        *)

PixelStride == 7         \* the stride of the pixels looked at

RenderImageSize == 4     \* the images drawn are RenderImageSize pixels square

\* The slot of imageType as loadImage leaves it while the image loads.
Unloaded(s, imageType) == ClearSlot(s, imageType)

\* Wipe is enabled in the composite modes and disabled in modes A and B
\* (setDisplayMode, setWipeMode).
RenderStates ==
    { [LoadedState(RenderImageSize, RenderImageSize, RenderImageSize, RenderImageSize) EXCEPT
          !.scale = IF mips THEN Rat(1, 4) ELSE RInt(1),
          !.imageAMipMaps = IF mips THEN Pyramid(Image(1, RenderImageSize, RenderImageSize), 0)
                            ELSE NoMipMaps,
          !.imageBMipMaps = IF mips THEN Pyramid(Image(2, RenderImageSize, RenderImageSize), 0)
                            ELSE NoMipMaps,
          !.offsetX = RInt(1), !.offsetBY = RInt(1),
          !.wipePositionInImageACoords = P(RInt(2), RInt(1)),
          !.compositeMode = mode,
          !.isWipeEnabled = (mode \notin {"A", "B"}),
          !.isSimpleWipe = simple,
          !.wipeAngle = a,
          !.wipeAlpha = alpha,
          !.isCheckerboard = checker] :
        mips \in BOOLEAN, mode \in {"A", "B", "Under", "OnionSkin", "Diff", "InvDiff"},
        simple \in BOOLEAN, a \in {0, 37}, alpha \in {Rat(1, 2), RInt(1)},
        checker \in BOOLEAN }

\* Images A and B of 100 x 100 at offset (0, 0), scale 1, the wipe centre at
\* (50, 50), angle 0, mode Under, alpha 1/2, the full wipe.
StateWipeAtCentre ==
    [LoadedState(100, 100, 100, 100) EXCEPT
        !.canvas = Canvas(200, 100),
        !.wipePositionInImageACoords = P(RInt(50), RInt(50)),
        !.wipeAlpha = Rat(1, 2)]

RenderCalls ==
    { [fn |-> "draw", drawUI |-> ui, contextOk |-> ok] : ui \in BOOLEAN, ok \in BOOLEAN }
    \cup { [fn |-> "updateMagnifier", x |-> RInt(3), y |-> RInt(2),
            magCtxOk |-> mok, contextOk |-> ok] : mok \in BOOLEAN, ok \in BOOLEAN }
    \cup { [fn |-> "renderCompositeContent", alpha |-> Rat(1, 2), contextOk |-> ok] :
             ok \in BOOLEAN }
    \cup { [fn |-> "drawSingleView", contextOk |-> ok] : ok \in BOOLEAN }

InitRender ==
    /\ \E s \in RenderStates \cup {StateWipeAtCentre} :
           state \in {s, Unloaded(s, "A"), Unloaded(s, "B"),
                      Unloaded(Unloaded(s, "A"), "B")}
    /\ images = <<>>
    /\ builds = {}
    /\ dom = InitDom
    /\ prec = 0
    /\ call \in RenderCalls
    /\ result = NoResult

\* The element's draw(): drawCanvas(this.state) on the canvas's context.
Draw ==
    /\ call.fn = "draw"
    /\ result = NoResult
    /\ result' = [fn |-> "draw",
                  ctx |-> draw(NewContext(state.canvas.width, state.canvas.height),
                               state, call.drawUI, call.contextOk)]
    /\ UNCHANGED <<state, images, builds, dom, prec, call>>

\* A faulty magnifier: it zooms the state it is given instead of a copy.
UpdateMagnifierInPlace ==
    /\ call.fn = "updateMagnifier"
    /\ result = NoResult
    /\ result' = [fn |-> "updateMagnifier"]
                 @@ updateMagnifier(NewContext(2 * MagnifierRadius(state),
                                               2 * MagnifierRadius(state)),
                                    call.x, call.y, state, call.magCtxOk, call.contextOk)
    /\ state' = [MagnifierState(call.x, call.y, state) EXCEPT !.canvas = state.canvas]
    /\ UNCHANGED <<images, builds, dom, prec, call>>

\* The element's updateMagnifier(x, y).
UpdateMagnifier ==
    /\ call.fn = "updateMagnifier"
    /\ result = NoResult
    /\ result' = [fn |-> "updateMagnifier"]
                 @@ updateMagnifier(NewContext(2 * MagnifierRadius(state),
                                               2 * MagnifierRadius(state)),
                                    call.x, call.y, state, call.magCtxOk, call.contextOk)
    /\ UNCHANGED <<state, images, builds, dom, prec, call>>

RenderCompositeContent ==
    /\ call.fn = "renderCompositeContent"
    /\ result = NoResult
    /\ result' = [fn |-> "renderCompositeContent",
                  ctx |-> renderCompositeContent(
                              NewContext(state.canvas.width, state.canvas.height),
                              state, call.alpha, call.contextOk)]
    /\ UNCHANGED <<state, images, builds, dom, prec, call>>

DrawSingleView ==
    /\ call.fn = "drawSingleView"
    /\ result = NoResult
    /\ result' = [fn |-> "drawSingleView",
                  ctx |-> drawSingleView(NewContext(state.canvas.width, state.canvas.height),
                                         state, call.contextOk)]
    /\ UNCHANGED <<state, images, builds, dom, prec, call>>

NextRender == Draw \/ UpdateMagnifier \/ RenderCompositeContent \/ DrawSingleView

SpecRender == InitRender /\ [][NextRender]_vars

----------------------------------------------------------------------------
(* C1: for each image slot, a pyramid build completion that belongs to an  *)
(* image that is no longer the slot's current image is discarded: whenever *)
(* the slot's pyramid is set, its level 0 is the slot's current image.     *)
C1_StaleCompletionDiscarded ==
    \A t \in ImageTypes :
        SlotMipMaps(state, t) # NoMipMaps =>
            /\ SlotMipMaps(state, t)[1].img = SlotImage(state, t).id
            /\ SlotMipMaps(state, t)[1].level = 0


(* C2: the clip polygon for normal n and the clip polygon for the opposite *)
(* half-plane (normal -n) partition image B's rectangle: their areas add   *)
(* up to the rectangle's area, for every rectangle, wipe centre and angle. *)
C2_Partition ==
    result.fn = "createWipeClippingPath" =>
        RAdd(PolygonArea(result.path), PolygonArea(result.opposite)) = ImageBArea(state)

(* C3: when no corner of image B's rectangle has a positive dot product    *)
(* with the wipe normal the clip path has zero area; when all four have,   *)
(* the clip path is the rectangle, its vertices in the order top-left,     *)
(* top-right, bottom-right, bottom-left.                                   *)
C3_CornerDots ==
    LET a  == IF state.isSimpleWipe THEN 0 ELSE state.wipeAngle
        cx == RAdd(RAdd(state.offsetX, state.offsetAX),
                   RMul(state.wipePositionInImageACoords.x, state.scale))
        cy == RAdd(RAdd(state.offsetY, state.offsetAY),
                   RMul(state.wipePositionInImageACoords.y, state.scale))
        x0 == RAdd(state.offsetX, state.offsetBX)
        y0 == RAdd(state.offsetY, state.offsetBY)
        x1 == RAdd(x0, RMul(RInt(state.imageB.width), state.scale))
        y1 == RAdd(y0, RMul(RInt(state.imageB.height), state.scale))
        dot(x, y) == RAdd(RMul(RSub(x, cx), Rat(Cos5(a), 5)),
                          RMul(RSub(y, cy), Rat(Sin5(a), 5)))
    IN  [corners |-> <<P(x0, y0), P(x1, y0), P(x1, y1), P(x0, y1)>>,
         dots |-> <<dot(x0, y0), dot(x1, y0), dot(x1, y1), dot(x0, y1)>>]

C3_EmptyOrFullRectangle ==
    result.fn = "createWipeClippingPath" =>
        LET cd == C3_CornerDots
        IN  /\ (\A i \in 1..4 : ~ RLt(RInt(0), cd.dots[i]))
                   => PolygonArea(result.path) = RInt(0)
            /\ (\A i \in 1..4 : RLt(RInt(0), cd.dots[i]))
                   => result.path = cd.corners

\* The wipe centre at (150, 50), angle 0, a 100 x 100 rectangle at the
\* origin: the clip path computed is empty.
C3_Witness ==
    /\ state = StateWipeRightOfImage
    /\ result.fn = "createWipeClippingPath"
    /\ PolygonArea(result.path) = RInt(0)
    /\ result.opposite = C3_CornerDots.corners

(* C4, as stated: the round trip of the coordinate transforms returns the  *)
(* point it started from, exactly, for either composition, every scale > 0 *)
(* and all offsets.                                                        *)
C4_RoundTripExact ==
    result.fn \in {"canvasRoundTrip", "imageRoundTrip"} => result.point = call.p

(* C4, amended: the round trip returns the point up to the rounding of its *)
(* six operations.  With u = 2^-MantissaBits the unit roundoff and         *)
(* g = 6u / (1 - 6u): for a canvas point p,                                *)
(*   |rt(p) - p| <= g * (|p| + |offset| + |per-image offset|),             *)
(* and for an image point q,                                               *)
(*   |rt(q) - q| <= g * (|q| + (|offset| + |per-image offset|) / scale),   *)
(* in each coordinate.                                                     *)
C4_Within(err, size) ==
    RLe(RMul(RInt(Pow2(prec) - 6), RAbs(err)), RMul(RInt(6), size))

C4_RoundTripWithinRounding ==
    result.fn \in {"canvasRoundTrip", "imageRoundTrip"} =>
        LET oX == IF call.imageType = "A" THEN state.offsetAX ELSE state.offsetBX
            oY == IF call.imageType = "A" THEN state.offsetAY ELSE state.offsetBY
            offX == RAdd(RAbs(state.offsetX), RAbs(oX))
            offY == RAdd(RAbs(state.offsetY), RAbs(oY))
            errX == RSub(result.point.x, call.p.x)
            errY == RSub(result.point.y, call.p.y)
        IN  IF result.fn = "canvasRoundTrip"
            THEN /\ C4_Within(errX, RAdd(RAbs(call.p.x), offX))
                 /\ C4_Within(errY, RAdd(RAbs(call.p.y), offY))
            ELSE /\ C4_Within(errX, RAdd(RAbs(call.p.x), RDiv(offX, state.scale)))
                 /\ C4_Within(errY, RAdd(RAbs(call.p.y), RDiv(offY, state.scale)))

\* A round trip through image B's coordinates, with non-zero offsets, that
\* does not return the point exactly.
C4_Witness ==
    /\ result.fn = "canvasRoundTrip"
    /\ call.imageType = "B"
    /\ state.offsetX # RInt(0)
    /\ result.point.x # call.p.x
    /\ RLe(RAbs(RSub(result.point.x, call.p.x)), RInt(1))

(* C7: the level renderImageWithMipMaps selects is the least k with        *)
(* scale * 2^k >= 1/2, or the last level of the pyramid when there is no   *)
(* such level: scale >= 1/2 selects level 0, scale = 1/4 with a pyramid of *)
(* 3 levels selects level 1, and k never exceeds the last level's index.   *)
C7_LevelSelection ==
    result.fn = "renderImageWithMipMaps" =>
        LET n == Len(state.imageAMipMaps)
            k == result.ctx.events[1].mipLevel
        IN  /\ Len(result.ctx.events) = 1
            /\ k \in 0..(n - 1)
            /\ k < n - 1 => RLe(Rat(1, 2), RMul(state.scale, RInt(Pow2(k))))
            /\ k > 0 => RLt(RMul(state.scale, RInt(Pow2(k - 1))), Rat(1, 2))
            /\ RLe(Rat(1, 2), state.scale) => k = 0
            /\ state.scale = Rat(1, 4) /\ n = 3 => k = 1

\* Scale 1/4 and a pyramid of three levels: level 1 is selected.
C7_Witness ==
    /\ result.fn = "renderImageWithMipMaps"
    /\ state.scale = Rat(1, 4)
    /\ Len(state.imageAMipMaps) = 3
    /\ result.ctx.events[1].mipLevel = 1

(* C8: the raster drawn for the selected level k is level k of the         *)
(* pyramid: the original halved k times, of that level's dimensions.       *)
C8_DrawnRasterIsLevel ==
    result.fn = "renderImageWithMipMaps" =>
        LET e == result.ctx.events[1]
        IN  /\ e.source = state.imageAMipMaps[e.mipLevel + 1]
            /\ e.source.level = e.mipLevel

----------------------------------------------------------------------------
(* The drawing calls of a render.                                          *)

\* The source of a drawImage is a canvas (drawn off screen), not an image.
IsCanvas(source) == "events" \in DOMAIN source

\* The drawing calls made on ctx and on the canvases drawn into it.
RECURSIVE AllEvents(_)
AllEvents(ctx) ==
    { ctx.events[i] : i \in 1..Len(ctx.events) }
    \cup UNION { AllEvents(ctx.events[i].source) :
                   i \in { j \in 1..Len(ctx.events) :
                             /\ ctx.events[j].kind = "drawImage"
                             /\ IsCanvas(ctx.events[j].source) } }

\* The blend weights given to renderCompositeContent in a render.
CompositeAlphas(ctx) ==
    { e.alpha : e \in { f \in AllEvents(ctx) : f.kind = "renderCompositeContent" } }

\* A render of the wipe view has happened: by draw, or by updateMagnifier
\* with a context for the magnifier's canvas.
WipeViewRendered ==
    /\ result.fn \in {"draw", "updateMagnifier"}
    /\ state.isWipeEnabled /\ state.imageALoaded /\ state.imageBLoaded
    /\ result.fn = "updateMagnifier" => call.magCtxOk

\* C9: renderCompositeContent and drawSingleView, entered with the context
\* in its default drawing state, return with globalAlpha equal to 1.0 and
\* globalCompositeOperation equal to its value on entry ('source-over'), in
\* every mode and whichever images are present.
C9_NoResidualDrawingState ==
    result.fn \in {"renderCompositeContent", "drawSingleView"} =>
        /\ result.ctx.globalAlpha = RInt(1)
        /\ result.ctx.globalCompositeOperation =
               NewContext(state.canvas.width, state.canvas.height).globalCompositeOperation

\* renderCompositeContent has drawn B with 'lighter' and a weight of 1/2.
C9_Witness ==
    /\ result.fn = "renderCompositeContent"
    /\ state.compositeMode = "OnionSkin"
    /\ \E e \in AllEvents(result.ctx) :
           /\ e.kind = "drawImage"
           /\ e.globalCompositeOperation = "lighter"
           /\ e.globalAlpha = Rat(1, 2)

\* C6: in a render of the wipe view, by draw or by updateMagnifier, the
\* blend weight given to the composite is 1.0 when isSimpleWipe is true and
\* wipeAlpha otherwise; the composite is rendered when the canvas it needs
\* has a context.
C6_BlendWeight ==
    WipeViewRendered =>
        /\ \A a \in CompositeAlphas(result.ctx) :
               a = IF state.isSimpleWipe THEN RInt(1) ELSE state.wipeAlpha
        /\ (result.fn = "updateMagnifier" \/ call.contextOk) =>
               CompositeAlphas(result.ctx) # {}

\* draw has rendered a simple wipe in mode Diff with the slider at 1/2.
C6_Witness ==
    /\ WipeViewRendered
    /\ result.fn = "draw"
    /\ state.isSimpleWipe
    /\ state.wipeAlpha = Rat(1, 2)
    /\ state.compositeMode = "Diff"
    /\ CompositeAlphas(result.ctx) = {RInt(1)}

\* The number of clips that are not the wipe's: the circle of the magnifier.
OuterClips == IF result.fn = "updateMagnifier" THEN 1 ELSE 0

\* The drawing calls of the render that draw pixels, in order.
Drawn == SelectSeq(result.ctx.events, LAMBDA e : e.kind # "renderCompositeContent")

UnderWipeClip(e) == Len(e.clips) > OuterClips

\* C10: in a render of the wipe view, by draw or by updateMagnifier, image A
\* is drawn first without the wipe clip, the only drawing call made under
\* the wipe clip is one copy of an off-screen canvas of the size of the
\* destination, and the line and the handles are drawn after it without the
\* wipe clip.
C10_TwoPass ==
    WipeViewRendered /\ call.contextOk =>
        \E c \in 1..Len(Drawn) :
            /\ UnderWipeClip(Drawn[c])
            /\ Drawn[c].kind = "drawImage"
            /\ IsCanvas(Drawn[c].source)
            /\ Drawn[c].source.width = result.ctx.width
            /\ Drawn[c].source.height = result.ctx.height
            /\ \A i \in 1..Len(Drawn) : i # c => ~UnderWipeClip(Drawn[i])
            /\ \E i \in 1..(c - 1) :
                   /\ Drawn[i].kind = "drawImage"
                   /\ ~IsCanvas(Drawn[i].source)
                   /\ Drawn[i].source.img = state.imageA.id
            /\ \A i \in 1..Len(Drawn) : Drawn[i].kind \in {"ui", "crosshair"} => i > c

\* The same, of the renders made by draw.
C10_TwoPassMainView == result.fn = "draw" => C10_TwoPass

----------------------------------------------------------------------------
(* What a canvas shows at a pixel after the drawing calls made on it.  A   *)
(* pixel <<px, py>> is the unit square at (px, py).  What it shows is the  *)
(* weight w of each paint, premultiplied by the opacity a; unknown when a  *)
(* call covers the pixel in part or blends by 'difference'.  Images are    *)
(* taken opaque.                                                           *)

Paints == {"black", "white", "checkerboard", "A", "B", "overlay"}

Transparent == [w |-> [q \in Paints |-> RInt(0)], a |-> RInt(0), unknown |-> FALSE]

Solid(paint) ==
    [w |-> [q \in Paints |-> IF q = paint THEN RInt(1) ELSE RInt(0)],
     a |-> RInt(1), unknown |-> FALSE]

\* A and B in equal parts.
HalfAHalfB ==
    [w |-> [q \in Paints |-> IF q \in {"A", "B"} THEN Rat(1, 2) ELSE RInt(0)],
     a |-> RInt(1), unknown |-> FALSE]

\* 'source-over' and 'lighter' of S, weighted by globalAlpha g, on D.
SourceOver(D, S, g) ==
    [w |-> [q \in Paints |->
               RAdd(RMul(g, S.w[q]), RMul(RSub(RInt(1), RMul(g, S.a)), D.w[q]))],
     a |-> RAdd(RMul(g, S.a), RMul(RSub(RInt(1), RMul(g, S.a)), D.a)),
     unknown |-> S.unknown \/ (D.unknown /\ RMul(g, S.a) # RInt(1))]

Lighter(D, S, g) ==
    [w |-> [q \in Paints |-> RAdd(D.w[q], RMul(g, S.w[q]))],
     a |-> RMin(RInt(1), RAdd(D.a, RMul(g, S.a))),
     unknown |-> D.unknown \/ S.unknown]

Blend(D, S, g, op) ==
    CASE op = "source-over" -> SourceOver(D, S, g)
      [] op = "lighter" -> Lighter(D, S, g)
      [] OTHER -> [D EXCEPT !.unknown = TRUE]

PixelCorners(px, py) ==
    { P(RInt(px + dx), RInt(py + dy)) : dx \in {0, 1}, dy \in {0, 1} }

PixelCentre(px, py) == P(Rat(2 * px + 1, 2), Rat(2 * py + 1, 2))

\* How a rectangle covers a pixel: "in", "out" or "part".
RectCoverage(x, y, width, height, px, py) ==
    IF /\ RLe(x, RInt(px)) /\ RLe(RInt(px + 1), RAdd(x, width))
       /\ RLe(y, RInt(py)) /\ RLe(RInt(py + 1), RAdd(y, height))
    THEN "in"
    ELSE IF \/ RLe(RInt(px + 1), x) \/ RLe(RAdd(x, width), RInt(px))
            \/ RLe(RInt(py + 1), y) \/ RLe(RAdd(y, height), RInt(py))
    THEN "out"
    ELSE "part"

\* The side of c with respect to the edge from a to b.
Cross(a, b, c) ==
    RSub(RMul(RSub(b.x, a.x), RSub(c.y, a.y)), RMul(RSub(b.y, a.y), RSub(c.x, a.x)))

\* Cross, with the sign that makes the inside of the polygon positive.
Inward(path, k, c) ==
    IF RLt(Shoelace(path, 1), RInt(0))
    THEN RNeg(Cross(path[k], path[IF k = Len(path) THEN 1 ELSE k + 1], c))
    ELSE Cross(path[k], path[IF k = Len(path) THEN 1 ELSE k + 1], c)

\* The square of the distance between two points.
Dist2(a, b) ==
    RAdd(RMul(RSub(a.x, b.x), RSub(a.x, b.x)), RMul(RSub(a.y, b.y), RSub(a.y, b.y)))

\* How the disc of a circular path covers a pixel, whose corners are less
\* than 1 from its centre.
CircleCoverage(circle, px, py) ==
    IF \A c \in PixelCorners(px, py) : RLe(Dist2(c, circle), RInt(circle.radius * circle.radius))
    THEN "in"
    ELSE IF RLe(RInt((circle.radius + 1) * (circle.radius + 1)),
                Dist2(PixelCentre(px, py), circle))
    THEN "out"
    ELSE "part"

\* How the region of a clip path, a circle or a convex polygon, covers a
\* pixel.
PathCoverage(path, px, py) ==
    IF Len(path) = 1 /\ "arc" \in DOMAIN path[1] THEN CircleCoverage(path[1], px, py)
    ELSE IF Len(path) < 3 \/ Shoelace(path, 1) = RInt(0) THEN "out"
    ELSE IF \A k \in 1..Len(path) : \A c \in PixelCorners(px, py) :
                RLe(RInt(0), Inward(path, k, c))
    THEN "in"
    ELSE IF \E k \in 1..Len(path) : \A c \in PixelCorners(px, py) :
                RLe(Inward(path, k, c), RInt(0))
    THEN "out"
    ELSE "part"

\* The coverage of a drawing call of the given coverage under its clips.
Clipped(coverage, clips, px, py) ==
    IF coverage = "out" \/ \E k \in 1..Len(clips) : PathCoverage(clips[k], px, py) = "out"
    THEN "out"
    ELSE IF coverage = "in" /\ \A k \in 1..Len(clips) : PathCoverage(clips[k], px, py) = "in"
    THEN "in"
    ELSE "part"

\* How far from its outline a stroke of the wipe's interface reaches a
\* pixel's centre: half the line width, the shadow (a Gaussian blur of
\* standard deviation shadowBlur / 2, taken to four deviations) and the
\* pixel's half diagonal, less than 1.
Reach(e) == RAdd(Rat(e.lineWidth, 2), RInt(2 * e.shadowBlur + 1))

InAnnulus(d2, inner, outer) ==
    /\ RLe(d2, RMul(outer, outer))
    /\ RLe(inner, RInt(0)) \/ RLe(RMul(inner, inner), d2)

\* How a call drawing the wipe's interface covers a pixel of centre c: "in"
\* where the fill of a disc covers it whole, "out" where neither the shape
\* nor its shadow reaches it, and "part" between.
OverlayCoverage(e, c) ==
    CASE e.shape = "wipeLine" ->
             IF RLe(RAbs(RAdd(RMul(RSub(c.x, e.at.x), MathCos(e.wipeAngleRad)),
                              RMul(RSub(c.y, e.at.y), MathSin(e.wipeAngleRad)))),
                    Reach(e))
             THEN "part" ELSE "out"
      [] e.shape = "disc" ->
             IF InAnnulus(Dist2(c, e.at), RInt(0), RInt(e.radius - 1)) THEN "in"
             ELSE IF InAnnulus(Dist2(c, e.at), RInt(0), RAdd(RInt(e.radius), Reach(e)))
             THEN "part" ELSE "out"
      [] e.shape = "line" ->
             IF /\ RLe(RSub(RMin(e.from.x, e.to.x), Reach(e)), c.x)
                /\ RLe(c.x, RAdd(RMax(e.from.x, e.to.x), Reach(e)))
                /\ RLe(RSub(RMin(e.from.y, e.to.y), Reach(e)), c.y)
                /\ RLe(c.y, RAdd(RMax(e.from.y, e.to.y), Reach(e)))
             THEN "part" ELSE "out"
      [] e.shape = "arc" ->
             IF InAnnulus(Dist2(c, e.at), RSub(RInt(e.radius), Reach(e)),
                          RAdd(RInt(e.radius), Reach(e)))
             THEN "part" ELSE "out"
      [] e.shape = "discOnArc" ->
             IF InAnnulus(Dist2(c, e.at.centre),
                          RSub(RInt(e.at.radius - e.radius), Reach(e)),
                          RAdd(RInt(e.at.radius + e.radius), Reach(e)))
             THEN "part" ELSE "out"

\* The pixel after a call that draws S with the given coverage.
Painted(D, S, e, coverage) ==
    CASE coverage = "out" -> D
      [] coverage = "in" -> Blend(D, S, e.globalAlpha, e.globalCompositeOperation)
      [] OTHER -> IF S = D /\ S.a = RInt(1) /\ e.globalCompositeOperation = "source-over"
                  THEN D
                  ELSE [D EXCEPT !.unknown = TRUE]

ImagePaint(source) == IF source.img = state.imageA.id THEN "A" ELSE "B"

\* The pixel of a canvas (PixelOf), and the pixel D after the drawing call e.
RECURSIVE PixelOf(_, _, _)
RECURSIVE PixelAfter(_, _, _, _, _)
PaintedBy(e, D, px, py) ==
    CASE e.kind = "renderCompositeContent" -> D
      [] e.kind = "fillRect" ->
             IF e.fillStyle = "checkerboard" /\ (e.offsetX # RInt(0) \/ e.offsetY # RInt(0))
             THEN [D EXCEPT !.unknown = TRUE]
             ELSE Painted(D, Solid(e.fillStyle), e,
                          Clipped(RectCoverage(e.x, e.y, e.width, e.height, px, py),
                                  e.clips, px, py))
      [] e.kind = "drawImage" /\ ~IsCanvas(e.source) ->
             Painted(D, Solid(ImagePaint(e.source)), e,
                     Clipped(RectCoverage(e.x, e.y, e.width, e.height, px, py),
                             e.clips, px, py))
      [] e.kind = "drawImage" /\ IsCanvas(e.source) ->
             IF /\ e.x = RInt(0) /\ e.y = RInt(0)
                /\ e.width = RInt(e.source.width) /\ e.height = RInt(e.source.height)
             THEN Painted(D, PixelOf(e.source, px, py), e,
                          Clipped(RectCoverage(e.x, e.y, e.width, e.height, px, py),
                                  e.clips, px, py))
             ELSE [D EXCEPT !.unknown = TRUE]
      [] e.kind = "ui" ->
             Painted(D, Solid("overlay"), e,
                     Clipped(OverlayCoverage(e, PixelCentre(px, py)), e.clips, px, py))
      [] OTHER -> [D EXCEPT !.unknown = TRUE]

PixelAfter(events, i, D, px, py) ==
    IF i > Len(events) THEN D
    ELSE PixelAfter(events, i + 1, PaintedBy(events[i], D, px, py), px, py)

PixelOf(ctx, px, py) == PixelAfter(ctx.events, 1, Transparent, px, py)

\* draw has rendered the scenario: images A and B of 100 x 100 at offset
\* (0, 0), scale 1, wipe centre (50, 50), angle 0, mode Under, alpha 1/2, the
\* full wipe, and the off-screen canvas has a context.
C5_Scenario ==
    /\ result.fn = "draw"
    /\ state = StateWipeAtCentre
    /\ call.contextOk

\* The pixels of image A's rectangle on the canvas in the scenario: one row
\* and one column in PixelStride, the last ones, and those around the wipe
\* centre.
C5_Coordinates(size, centre) ==
    { k \in 0..(size - 1) :
        k % PixelStride = 0 \/ k = size - 1 \/ Abs(k - centre) <= PixelStride }

C5_Pixels ==
    C5_Coordinates(state.imageA.width, 50) \X C5_Coordinates(state.imageA.height, 50)

\* What the pixel shows when the wipe's interface is left out: A alone left
\* of the wipe centre, A and B in equal parts right of it.
C5_Expected(px) ==
    IF RLe(RInt(px + 1), getWipePositionInCanvasCoords(state).x)
    THEN Solid("A")
    ELSE HalfAHalfB

\* The wipe's line or one of its handles, or its shadow, reaches the pixel.
C5_Overlaid(px, py) ==
    \E i \in 1..Len(result.ctx.events) :
        /\ result.ctx.events[i].kind = "ui"
        /\ OverlayCoverage(result.ctx.events[i], PixelCentre(px, py)) # "out"

\* C5 as stated: in the scenario draw() leaves every pixel with x < 50
\* showing A only and every pixel with 50 < x < 100 showing A blended 50/50
\* with B.
C5_HalfPlanes ==
    C5_Scenario =>
        \A p \in C5_Pixels : PixelOf(result.ctx, p[1], p[2]) = C5_Expected(p[1])

\* C5, amended: in the scenario draw leaves every pixel that the wipe's line
\* and handles do not reach showing A only where x < 50 and A blended 50/50
\* with B where 50 <= x < 100; with drawUI false that is every pixel, and
\* with drawUI true (the element's draw()) the pixels of the translation
\* handle, on both sides of the line, show the handle.
C5_HalfPlanesUnderOverlay ==
    C5_Scenario =>
        /\ \A p \in C5_Pixels :
               \/ C5_Overlaid(p[1], p[2])
               \/ PixelOf(result.ctx, p[1], p[2]) = C5_Expected(p[1])
        /\ ~call.drawUI => \A p \in C5_Pixels : ~C5_Overlaid(p[1], p[2])
        /\ call.drawUI => /\ PixelOf(result.ctx, 47, 50) = Solid("overlay")
                          /\ PixelOf(result.ctx, 52, 48) = Solid("overlay")

\* The element's draw() has rendered the scenario: a pixel on the left shows
\* A, one on the right shows the blend, one at the centre shows the handle.
C5_Witness ==
    /\ C5_Scenario
    /\ call.drawUI
    /\ ~C5_Overlaid(10, 10) /\ PixelOf(result.ctx, 10, 10) = Solid("A")
    /\ ~C5_Overlaid(90, 90) /\ PixelOf(result.ctx, 90, 90) = HalfAHalfB
    /\ C5_Overlaid(47, 50)

----------------------------------------------------------------------------
(* draw with an image missing.                                             *)

\* The drawing calls of the render that draw a raster of the image of id.
DrawsImage(ctx, id) ==
    \E e \in AllEvents(ctx) :
        /\ e.kind = "drawImage"
        /\ ~IsCanvas(e.source)
        /\ e.source.img = id

\* The render has drawn the background and nothing else.
OnlyBackground(ctx) ==
    \A i \in 1..Len(ctx.events) : ctx.events[i].kind = "fillRect"

\* C11: with exactly one image loaded draw() paints that image in each of
\* the modes Under, OnionSkin, Diff and InvDiff, and with no image loaded it
\* paints only the background.
C11_AvailableSubsetRendered ==
    result.fn = "draw" =>
        /\ (state.imageALoaded /\ ~state.imageBLoaded
            /\ state.compositeMode \in {"Under", "OnionSkin", "Diff", "InvDiff"})
               => DrawsImage(result.ctx, state.imageA.id)
        /\ (state.imageBLoaded /\ ~state.imageALoaded
            /\ state.compositeMode \in {"Under", "OnionSkin", "Diff", "InvDiff"})
               => DrawsImage(result.ctx, state.imageB.id)
        /\ (~state.imageALoaded /\ ~state.imageBLoaded) => OnlyBackground(result.ctx)

\* The same, of the modes Under and OnionSkin only.
C11_UnderAndOnionSkin ==
    state.compositeMode \in {"Under", "OnionSkin", "A", "B"} => C11_AvailableSubsetRendered

\* In the modes Diff and InvDiff a single loaded image is not painted.
C11_DifferenceNeedsBoth ==
    (/\ result.fn = "draw"
     /\ state.imageALoaded # state.imageBLoaded
     /\ state.compositeMode \in {"Diff", "InvDiff"}) => OnlyBackground(result.ctx)

----------------------------------------------------------------------------
(* analysis: calculatePSNRForImages and calculateImageOverlap.  An         *)
(* ImageData is its width, its height and its data, the sequence of the    *)
(* R, G, B, A values of its pixels (indexed from 1 here, from 0 in the     *)
(* code).                                                                  *)

NoOverlap == [null |-> TRUE]

\* Lines 2596-2604: the overlap of the bounds (left, top, right, bottom) of
\* A and of B.
OverlapOfBounds(aLeft, aTop, aRight, aBottom, bLeft, bTop, bRight, bBottom) ==
    IF \/ RLe(RMin(aRight, bRight), RMax(aLeft, bLeft))
       \/ RLe(RMin(aBottom, bBottom), RMax(aTop, bTop))
    THEN NoOverlap
    ELSE [null |-> FALSE,
          width |-> NSub(RMin(aRight, bRight), RMax(aLeft, bLeft)),
          height |-> NSub(RMin(aBottom, bBottom), RMax(aTop, bTop)),
          aStartX |-> NSub(RMax(aLeft, bLeft), aLeft),
          aStartY |-> NSub(RMax(aTop, bTop), aTop),
          bStartX |-> NSub(RMax(aLeft, bLeft), bLeft),
          bStartY |-> NSub(RMax(aTop, bTop), bTop)]

\* A faulty overlap: it starts at A's left and top edges.
calculateImageOverlapFromA(aWidth, aHeight, aOffsetX, aOffsetY, bWidth, bHeight, bOffsetX, bOffsetY, scale) ==
    OverlapOfBounds(NDiv(aOffsetX, scale), NDiv(aOffsetY, scale),
                    NAdd(NDiv(aOffsetX, scale), RInt(aWidth)),
                    NAdd(NDiv(aOffsetY, scale), RInt(aHeight)),
                    NDiv(aOffsetX, scale), NDiv(aOffsetY, scale),
                    NAdd(NDiv(bOffsetX, scale), RInt(bWidth)),
                    NAdd(NDiv(bOffsetY, scale), RInt(bHeight)))

calculateImageOverlap(aWidth, aHeight, aOffsetX, aOffsetY, bWidth, bHeight, bOffsetX, bOffsetY, scale) ==
    OverlapOfBounds(NDiv(aOffsetX, scale), NDiv(aOffsetY, scale),
                    NAdd(NDiv(aOffsetX, scale), RInt(aWidth)),
                    NAdd(NDiv(aOffsetY, scale), RInt(aHeight)),
                    NDiv(bOffsetX, scale), NDiv(bOffsetY, scale),
                    NAdd(NDiv(bOffsetX, scale), RInt(bWidth)),
                    NAdd(NDiv(bOffsetY, scale), RInt(bHeight)))

\* Lines 2496-2500: the bounds check of the pixel (aX, aY) of A and (bX, bY)
\* of B.
InBounds(aX, aY, bX, bY, imageA, imageB) ==
    /\ aX >= 0 /\ aX < imageA.width /\ aY >= 0 /\ aY < imageA.height
    /\ bX >= 0 /\ bX < imageB.width /\ bY >= 0 /\ bY < imageB.height

\* Lines 2507-2511: the squared differences of the R, G and B values.
SquaredDifferences(aData, bData, aIndex, bIndex) ==
    (aData[aIndex + 1] - bData[bIndex + 1]) * (aData[aIndex + 1] - bData[bIndex + 1])
    + (aData[aIndex + 2] - bData[bIndex + 2]) * (aData[aIndex + 2] - bData[bIndex + 2])
    + (aData[aIndex + 3] - bData[bIndex + 3]) * (aData[aIndex + 3] - bData[bIndex + 3])

\* Lines 2487-2515, for the step (x, y) of the loops: what it adds to mse,
\* and to pixelCount.
StepSquares(x, y, o, imageAData, imageBData, imageA, imageB) ==
    IF InBounds(Floor(NAdd(o.aStartX, RInt(x))), Floor(NAdd(o.aStartY, RInt(y))),
                Floor(NAdd(o.bStartX, RInt(x))), Floor(NAdd(o.bStartY, RInt(y))),
                imageA, imageB)
    THEN SquaredDifferences(
             imageAData.data, imageBData.data,
             (Floor(NAdd(o.aStartY, RInt(y))) * imageA.width
                + Floor(NAdd(o.aStartX, RInt(x)))) * 4,
             (Floor(NAdd(o.bStartY, RInt(y))) * imageB.width
                + Floor(NAdd(o.bStartX, RInt(x)))) * 4)
    ELSE 0

StepCount(x, y, o, imageA, imageB) ==
    IF InBounds(Floor(NAdd(o.aStartX, RInt(x))), Floor(NAdd(o.aStartY, RInt(y))),
                Floor(NAdd(o.bStartX, RInt(x))), Floor(NAdd(o.bStartY, RInt(y))),
                imageA, imageB)
    THEN 1 ELSE 0

\* The steps of the loops: 0 <= x < width and 0 <= y < height.
RECURSIVE LoopSteps(_, _, _)
LoopSteps(x, y, o) ==
    IF ~RLt(RInt(y), o.height) THEN <<>>
    ELSE IF ~RLt(RInt(x), o.width) THEN LoopSteps(0, y + 1, o)
    ELSE <<<<x, y>>>> \o LoopSteps(x + 1, y, o)

RECURSIVE SumSquares(_, _, _, _, _, _, _)
SumSquares(steps, k, o, imageAData, imageBData, imageA, imageB) ==
    IF k > Len(steps) THEN 0
    ELSE StepSquares(steps[k][1], steps[k][2], o, imageAData, imageBData, imageA, imageB)
         + SumSquares(steps, k + 1, o, imageAData, imageBData, imageA, imageB)

RECURSIVE PixelCount(_, _, _, _, _)
PixelCount(steps, k, o, imageA, imageB) ==
    IF k > Len(steps) THEN 0
    ELSE StepCount(steps[k][1], steps[k][2], o, imageA, imageB)
         + PixelCount(steps, k + 1, o, imageA, imageB)

\* A faulty text: a zero error is given in decibels like any other.
PsnrOfSumInDecibels(mse, pixelCount) ==
    IF pixelCount = 0 THEN PsnrText("PSNR: No valid pixels")
    ELSE PsnrDecibels(NDiv(RInt(mse), RInt(pixelCount * 3)))

\* Lines 2518-2540: the text for the sum mse over pixelCount pixels.
PsnrOfSum(mse, pixelCount) ==
    IF pixelCount = 0 THEN PsnrText("PSNR: No valid pixels")
    ELSE IF NDiv(RInt(mse), RInt(pixelCount * 3)) = RInt(0)
    THEN PsnrText("PSNR: infinity (identical)")
    ELSE PsnrDecibels(NDiv(RInt(mse), RInt(pixelCount * 3)))

\* Lines 2479-2516: the text for the overlap o.
PsnrOfOverlap(o, imageAData, imageBData, imageA, imageB) ==
    IF o.null THEN PsnrText("PSNR: No overlap")
    ELSE IF RLe(o.width, RInt(0)) \/ RLe(o.height, RInt(0))
    THEN PsnrText("PSNR: No overlap")
    ELSE PsnrOfSum(SumSquares(LoopSteps(0, 0, o), 1, o, imageAData, imageBData,
                              imageA, imageB),
                   PixelCount(LoopSteps(0, 0, o), 1, o, imageA, imageB))

NoImageData == [width |-> 0, height |-> 0, data |-> <<>>]

\* calculatePSNRForImages; null is NoImageData for the pixel data and
\* NoImage for the images.
calculatePSNRForImages(imageAData, imageBData, imageA, imageB, offsetAX, offsetAY, offsetBX, offsetBY, scale) ==
    IF imageAData = NoImageData \/ imageBData = NoImageData
       \/ imageA = NoImage \/ imageB = NoImage
    THEN PsnrText("PSNR: N/A")
    ELSE PsnrOfOverlap(calculateImageOverlap(imageA.width, imageA.height, offsetAX, offsetAY,
                                             imageB.width, imageB.height, offsetBX, offsetBY,
                                             scale),
                       imageAData, imageBData, imageA, imageB)

----------------------------------------------------------------------------
(* calculatePSNRForImages applied to the arguments of a bounded set.       *)

PsnrMaxSize == 2     \* the largest width or height of an image compared

\* The R, G, B, A values of pixel n of a pattern.
PatternValue(pattern, n, c) ==
    IF c = 3 THEN 255
    ELSE CASE pattern = 0 -> 0
           [] pattern = 1 -> (n * 50 + c * 10) % 256
           [] pattern = 2 -> 255 - ((n * 50 + c * 10) % 256)

\* The ImageData getImageData gives for an image of w x h of a pattern.
PatternData(w, h, pattern) ==
    [width |-> w, height |-> h,
     data |-> [k \in 1..(w * h * 4) |-> PatternValue(pattern, (k - 1) \div 4, (k - 1) % 4)]]

PsnrSizes == (1..PsnrMaxSize) \X (1..PsnrMaxSize)

PsnrArguments(szA, pA, szB, pB, oAX, oAY, oBX, oBY, sc) ==
    [fn |-> "calculatePSNRForImages",
     imageAData |-> PatternData(szA[1], szA[2], pA),
     imageBData |-> PatternData(szB[1], szB[2], pB),
     imageA |-> Image(1, szA[1], szA[2]), imageB |-> Image(2, szB[1], szB[2]),
     offsetAX |-> oAX, offsetAY |-> oAY, offsetBX |-> oBX, offsetBY |-> oBY,
     scale |-> sc]

PsnrCalls ==
    { PsnrArguments(szA, pA, szB, pB, oAX, RInt(0), oBX, oBY, sc) :
        szA \in PsnrSizes, pA \in {1, 2}, szB \in PsnrSizes, pB \in {0, 1, 2},
        oAX \in {RInt(0), RInt(1)}, oBX \in {RInt(-1), RInt(0), RInt(1), RInt(3)},
        oBY \in {RInt(0), RInt(1)}, sc \in {Rat(1, 2), RInt(1), RInt(2)} }

\* The calls with an image or its pixel data missing.
PsnrCallsMissing ==
    LET c == PsnrArguments(<<2, 2>>, 1, <<2, 2>>, 1, RInt(0), RInt(0), RInt(0), RInt(0), RInt(1))
    IN  { [c EXCEPT !.imageAData = NoImageData], [c EXCEPT !.imageBData = NoImageData],
          [c EXCEPT !.imageA = NoImage], [c EXCEPT !.imageB = NoImage],
          [c EXCEPT !.imageA = NoImage, !.imageAData = NoImageData,
                    !.imageB = NoImage, !.imageBData = NoImageData] }

InitPsnr ==
    /\ state = InitState
    /\ images = <<>>
    /\ builds = {}
    /\ dom = InitDom
    /\ prec = 0
    /\ call \in PsnrCalls \cup PsnrCallsMissing
    /\ result = NoResult

CalculatePSNRForImages ==
    /\ call.fn = "calculatePSNRForImages"
    /\ result = NoResult
    /\ result' = [fn |-> "calculatePSNRForImages",
                  psnr |-> calculatePSNRForImages(
                               call.imageAData, call.imageBData, call.imageA, call.imageB,
                               call.offsetAX, call.offsetAY, call.offsetBX, call.offsetBY,
                               call.scale)]
    /\ UNCHANGED <<state, images, builds, dom, prec, call>>

NextPsnr == CalculatePSNRForImages

SpecPsnr == InitPsnr /\ [][NextPsnr]_vars

\* An argument of the call is missing.
C13_Missing ==
    \/ call.imageAData = NoImageData \/ call.imageBData = NoImageData
    \/ call.imageA = NoImage \/ call.imageB = NoImage

\* The rectangles of A and B, at their offsets divided by scale, have no
\* area in common.
C13_Disjoint ==
    \/ RLe(RMin(RAdd(RDiv(call.offsetAX, call.scale), RInt(call.imageA.width)),
                RAdd(RDiv(call.offsetBX, call.scale), RInt(call.imageB.width))),
           RMax(RDiv(call.offsetAX, call.scale), RDiv(call.offsetBX, call.scale)))
    \/ RLe(RMin(RAdd(RDiv(call.offsetAY, call.scale), RInt(call.imageA.height)),
                RAdd(RDiv(call.offsetBY, call.scale), RInt(call.imageB.height))),
           RMax(RDiv(call.offsetAY, call.scale), RDiv(call.offsetBY, call.scale)))

\* A and B have the same size and the same offsets.
C13_Aligned ==
    /\ call.imageA.width = call.imageB.width /\ call.imageA.height = call.imageB.height
    /\ call.offsetAX = call.offsetBX /\ call.offsetAY = call.offsetBY

C14_Symmetric ==
    result.fn = "calculatePSNRForImages" =>
        result.psnr = calculatePSNRForImages(
                          call.imageBData, call.imageAData, call.imageB, call.imageA,
                          call.offsetBX, call.offsetBY, call.offsetAX, call.offsetAY,
                          call.scale)

\* Images of different sizes and patterns at different offsets were compared
\* and differ.
C14_Witness ==
    /\ result.fn = "calculatePSNRForImages"
    /\ call.imageA.width = 2 /\ call.imageB.width = 1
    /\ call.offsetBX = RInt(1) /\ call.offsetAX = RInt(0)
    /\ call.scale = RInt(2)
    /\ result.psnr.text = "PSNR: dB"

----------------------------------------------------------------------------
\* The PSNR banner of the element

\* The ImageData the element holds for an image: the pixels of its URL, or
\* null when the temporary canvas gave no context.
ElementImageData(image, data) ==
    IF data = NoData THEN NoImageData
    ELSE PatternData(image.width, image.height, images[data].url)

\* What calculatePSNRForImages returns for the arguments a.
PsnrOfArguments(a) ==
    calculatePSNRForImages(ElementImageData(a.imageA, a.imageAData),
                           ElementImageData(a.imageB, a.imageBData),
                           a.imageA, a.imageB,
                           a.offsetAX, a.offsetAY, a.offsetBX, a.offsetBY, a.scale)

\* C12: once updatePSNR has run (here: on the load that makes both images
\* present), the PSNR banner shows the text that calculatePSNRForImages
\* computes for the images, offsets and scale updatePSNR passed to it.
C12_BannerShowsPSNR ==
    dom.psnrArguments.made => dom.psnrInfo = PsnrOfArguments(dom.psnrArguments)

\* What the code does instead: after updatePSNR the banner reads 'PSNR: N/A',
\* whatever the images are.
C12_BannerStaysNA ==
    dom.psnrArguments.made => dom.psnrInfo = PsnrText("PSNR: N/A")

\* updatePSNR has run for two images whose PSNR is a number of decibels, and
\* the banner reads 'PSNR: N/A'.
C12_Witness ==
    /\ dom.psnrArguments.made
    /\ PsnrOfArguments(dom.psnrArguments).text = "PSNR: dB"
    /\ dom.psnrInfo.text = "PSNR: N/A"

----------------------------------------------------------------------------
\* Pyramids under construction

\* The levels above the original that the build b has completed are in the
\* pyramid of its slot, where drawSingleImage looks for them.
LevelsAvailable(b) ==
    \A k \in 2..Len(b.mipMaps) :
        /\ k <= Len(SlotMipMaps(state, b.imageType))
        /\ SlotMipMaps(state, b.imageType)[k] = b.mipMaps[k]

\* C15: each level of a pyramid under construction is available to rendering
\* as soon as it is completed: while the build for the image of a slot is in
\* progress, a frame finds the levels completed so far in the slot's pyramid.
C15_LevelsAvailableDuringBuild ==
    \A b \in builds :
        SlotImage(state, b.imageType).id = b.img => LevelsAvailable(b)

\* What the code does instead: while the build for the image of a slot is in
\* progress the slot's pyramid holds no level of that image, so a frame
\* draws the original.
C15_NothingDuringBuild ==
    \A b \in builds :
        SlotImage(state, b.imageType).id = b.img =>
            \A k \in 1..Len(SlotMipMaps(state, b.imageType)) :
                SlotMipMaps(state, b.imageType)[k].img # b.img

\* A build has completed a level above the original for the image of its
\* slot, and the slot has no pyramid.
C15_Witness ==
    \E b \in builds :
        /\ SlotImage(state, b.imageType).id = b.img
        /\ Len(b.mipMaps) >= 2
        /\ SlotMipMaps(state, b.imageType) = NoMipMaps

----------------------------------------------------------------------------
\* The shape of a pyramid

\* The pyramid of image A, its source, and the level whose canvas had no
\* context in the build (0: none).
MipPyramid == state.imageAMipMaps

MipSource == state.imageA

\* Level k of a pyramid p (p[k + 1]) is the source at level 0 and half the
\* level before it, floored and at least 1, in each dimension.
HalvedLevels(p, image) ==
    /\ p[1] = Raster(image.id, 0, image.width, image.height)
    /\ \A k \in 1..(Len(p) - 1) :
           /\ p[k + 1].img = image.id
           /\ p[k + 1].level = k
           /\ p[k + 1].width = Max2(1, p[k].width \div 2)
           /\ p[k + 1].height = Max2(1, p[k].height \div 2)

\* C16 as stated: a source narrower or lower than 4 has the single level 0;
\* otherwise the levels halve and the last level is the first one with a
\* dimension of 1.
C16_StopsAtEitherOne ==
    (call.fn = "renderImageWithMipMaps" /\ call.failAt = 0) =>
        /\ Len(MipPyramid) >= 1
        /\ HalvedLevels(MipPyramid, MipSource)
        /\ IF MipSource.width < 4 \/ MipSource.height < 4
           THEN Len(MipPyramid) = 1
           ELSE \A k \in 1..Len(MipPyramid) :
                    (MipPyramid[k].width = 1 \/ MipPyramid[k].height = 1)
                        <=> k = Len(MipPyramid)

\* C16, amended: a source narrower or lower than 4 has the single level 0;
\* otherwise the levels halve and the last level is the first one of 1 x 1.
C16_StopsAtBothOne ==
    (call.fn = "renderImageWithMipMaps" /\ call.failAt = 0) =>
        /\ Len(MipPyramid) >= 1
        /\ HalvedLevels(MipPyramid, MipSource)
        /\ IF MipSource.width < 4 \/ MipSource.height < 4
           THEN Len(MipPyramid) = 1
           ELSE \A k \in 1..Len(MipPyramid) :
                    (MipPyramid[k].width = 1 /\ MipPyramid[k].height = 1)
                        <=> k = Len(MipPyramid)

\* The pyramid of an 8 x 4 source, built without a failure: 8 x 4, 4 x 2,
\* 2 x 1 and 1 x 1.
C16_Witness ==
    /\ call.fn = "renderImageWithMipMaps" /\ call.failAt = 0
    /\ result # NoResult
    /\ MipSource.width = 8 /\ MipSource.height = 4
    /\ Len(MipPyramid) = 4
    /\ MipPyramid[3].width = 2 /\ MipPyramid[3].height = 1
    /\ MipPyramid[4].width = 1 /\ MipPyramid[4].height = 1

\* The number of levels above the original that a build without failure
\* makes for a w x h source: the halvings that bring both sizes to 1.
RECURSIVE Halvings(_, _)
Halvings(w, h) ==
    IF w <= 1 /\ h <= 1 THEN 0 ELSE 1 + Halvings(w \div 2, h \div 2)

\* The canvas of level call.failAt of the build of image A had no context.
MipBuildFailed ==
    /\ call.fn = "renderImageWithMipMaps"
    /\ call.failAt >= 1
    /\ MipSource.width >= 4 /\ MipSource.height >= 4
    /\ call.failAt <= Halvings(MipSource.width, MipSource.height)

\* C17: when the canvas of a level has no context, createMipMaps resolves
\* with exactly the levels made before it, level 0 (the original) among
\* them, and the image is drawn all the same.
C17_TruncatedAtFailure ==
    MipBuildFailed =>
        /\ Len(MipPyramid) = call.failAt
        /\ MipPyramid[1] = Raster(MipSource.id, 0, MipSource.width, MipSource.height)
        /\ \A k \in 1..Len(MipPyramid) :
               MipPyramid[k] = Raster(MipSource.id, k - 1,
                                      Max2(1, MipSource.width \div Pow2(k - 1)),
                                      Max2(1, MipSource.height \div Pow2(k - 1)))
        /\ result # NoResult =>
               \E i \in 1..Len(result.ctx.events) :
                   /\ result.ctx.events[i].kind = "drawImage"
                   /\ result.ctx.events[i].source.img = MipSource.id

\* The canvas of level 2 of an 8 x 4 source had no context: the pyramid is
\* 8 x 4 and 4 x 2, and the image has been drawn.
C17_Witness ==
    /\ MipBuildFailed
    /\ call.failAt = 2
    /\ MipSource.width = 8 /\ MipSource.height = 4
    /\ Len(MipPyramid) = 2
    /\ result # NoResult

----------------------------------------------------------------------------
\* The ranges of the view state

\* C18: in every state the element reaches by attribute changes, the
\* processAttributes call on connect, key presses, wheel events and resets,
\* the scale is above 0 and the wipe alpha is a number from 0 to 1.
C18_ScaleAndAlphaInRange ==
    /\ RLt(RInt(0), state.scale)
    /\ ~IsNaN(state.wipeAlpha)
    /\ RLe(RInt(0), state.wipeAlpha)
    /\ RLe(state.wipeAlpha, RInt(1))

\* What holds of the code: the scale is above 0, and the wipe alpha is from
\* 0 to 1 or is NaN, which it only is after the element was connected with
\* a wipe-alpha attribute that is not a number.
C18_InRangeOrNaN ==
    /\ RLt(RInt(0), state.scale)
    /\ IF IsNaN(state.wipeAlpha)
       THEN dom.connected /\ IsNaN(parseFloat(dom.attributes["wipe-alpha"]))
       ELSE RLe(RInt(0), state.wipeAlpha) /\ RLe(state.wipeAlpha, RInt(1))

\* The wipe alpha is NaN.
C18_Witness == IsNaN(state.wipeAlpha)

\* C19: in every state with isSimpleWipe set, the wipe angle is 0.
C19_SimpleWipeAngleZero == state.isSimpleWipe => state.wipeAngle = 0

\* What holds of the code: a key press that enters the simple wipe leaves
\* the angle at 0.
C19_ZeroOnKey ==
    [][(HandleKeyDown /\ ~state.isSimpleWipe /\ state'.isSimpleWipe)
          => state'.wipeAngle = 0]_vars

\* The simple wipe at an angle of 90 degrees.
C19_Witness == state.isSimpleWipe /\ state.wipeAngle = 90

----------------------------------------------------------------------------
(* The rendering core applied to the states of a bounded set: draw,        *)
(* updateMagnifier, and calculatePSNRForImages with the arguments that     *)
(* updatePSNR takes from the state.                                        *)

\* The ImageData of an image of the state: the pattern of its id.
StateImageData(image, data) ==
    IF data = NoData THEN NoImageData
    ELSE PatternData(image.width, image.height, data)

\* updatePSNR, lines 1342-1352: the arguments of calculatePSNRForImages.
PsnrCallOf(s) ==
    [fn |-> "calculatePSNRForImages",
     imageAData |-> StateImageData(s.imageA, s.imageAData),
     imageBData |-> StateImageData(s.imageB, s.imageBData),
     imageA |-> s.imageA, imageB |-> s.imageB,
     offsetAX |-> s.offsetAX, offsetAY |-> s.offsetAY,
     offsetBX |-> s.offsetBX, offsetBY |-> s.offsetBY, scale |-> s.scale]

CoreCalls(s) ==
    { c \in RenderCalls : c.fn \in {"draw", "updateMagnifier"} } \cup {PsnrCallOf(s)}

InitCore ==
    /\ prec = 0
    /\ \E s \in RenderStates :
           state \in {s, Unloaded(s, "A"), Unloaded(s, "B"),
                      Unloaded(Unloaded(s, "A"), "B")}
    /\ images = <<>>
    /\ builds = {}
    /\ dom = InitDom
    /\ call \in CoreCalls(state)
    /\ result = NoResult

NextCore == Draw \/ UpdateMagnifier \/ CalculatePSNRForImages

SpecCore == InitCore /\ [][NextCore]_vars

----------------------------------------------------------------------------
(* The documented defaults of the attributes (README, Component            *)
(* Attributes): display-mode "Under", wipe-mode "simple", wipe-angle 0,    *)
(* wipe-alpha 1.                                                           *)

\* The element is as it was created, its images loaded or not: no attribute
\* has been set and the state and the private fields are those of a start.
C22_AsCreated ==
    /\ \A name \in AttributeNames : dom.attributes[name] = NoAttribute
    /\ View(state, [dom EXCEPT !.connected = FALSE]) \in ViewsAtStart

\* C22: an element created without the attributes display-mode, wipe-mode,
\* wipe-angle and wipe-alpha has their documented defaults: the mode Under,
\* the wipe angle 0, the wipe alpha 1 and the simple wipe (isSimpleWipe),
\* until a handler changes them.
C22_DocumentedDefaults ==
    C22_AsCreated =>
        /\ state.compositeMode = "Under"
        /\ state.wipeAngle = 0
        /\ state.wipeAlpha = RInt(1)
        /\ state.isSimpleWipe

\* What the code gives: of the four defaults, all but the wipe mode, which
\* is the full wipe.
C22_DefaultsButWipeMode ==
    C22_AsCreated =>
        /\ state.compositeMode = "Under"
        /\ state.wipeAngle = 0
        /\ state.wipeAlpha = RInt(1)
        /\ ~state.isSimpleWipe

----------------------------------------------------------------------------
(* Several loads of one slot.                                               *)

\* The loads of slot t, by their number in the order of the loadImage calls.
LoadsOf(t) == { i \in 1..Len(images) : images[i].imageType = t }

\* The most recent loadImage call for slot t.
LatestLoad(t) == CHOOSE i \in LoadsOf(t) : \A j \in LoadsOf(t) : j <= i

\* No load of slot t is pending.
LoadsComplete(t) == \A i \in LoadsOf(t) : images[i].status # "loading"

SlotFilename(d, t) == IF t = "A" THEN d.filenameA ELSE d.filenameB

\* C30: when loadImage was called more than once for a slot and no load of
\* the slot is pending any more, the slot holds the image and shows the
\* filename of the most recent call, if that load succeeded, in whatever
\* order the loads completed.
C30_LatestLoadWins ==
    \A t \in ImageTypes :
        (/\ Cardinality(LoadsOf(t)) > 1
         /\ LoadsComplete(t)
         /\ images[LatestLoad(t)].status = "loaded")
        => /\ SlotImage(state, t).id = LatestLoad(t)
           /\ SlotFilename(dom, t) = <<"name", images[LatestLoad(t)].url>>

\* What the code gives: the slot holds the image of the load that completed
\* last, which is one of the slot's loads that succeeded.
C30_SomeLoadWins ==
    \A t \in ImageTypes :
        (/\ Cardinality(LoadsOf(t)) > 1
         /\ LoadsComplete(t)
         /\ images[LatestLoad(t)].status = "loaded")
        => /\ SlotImage(state, t).id \in LoadsOf(t)
           /\ images[SlotImage(state, t).id].status = "loaded"

----------------------------------------------------------------------------
(* updateMagnifier applied to states of several zoom factors.              *)

MagnifierZooms == {-2, -1, 0, 1, 2, 8}

MagnifierPointers == {P(RInt(3), RInt(2)), P(RInt(0), RInt(0)), P(Rat(5, 2), RInt(7))}

MagnifierStates ==
    { [LoadedState(RenderImageSize, RenderImageSize, RenderImageSize, RenderImageSize) EXCEPT
          !.magnifierZoomFactor = z,
          !.scale = sc,
          !.offsetX = ox, !.offsetY = RInt(1),
          !.offsetAX = oax, !.offsetBY = oby,
          !.wipePositionInImageACoords = P(RInt(2), RInt(1)),
          !.compositeMode = mode,
          !.isWipeEnabled = (mode \notin {"A", "B"})] :
        z \in MagnifierZooms, sc \in {RInt(1), Rat(1, 2), RInt(3)},
        ox \in {RInt(0), Rat(-5, 2)}, oax \in {RInt(0), RInt(1)},
        oby \in {RInt(0), Rat(3, 2)}, mode \in {"A", "Under"} }

InitMagnifier ==
    /\ prec = 0
    /\ state \in MagnifierStates
    /\ images = <<>>
    /\ builds = {}
    /\ dom = InitDom
    /\ \E p \in MagnifierPointers, mok \in BOOLEAN :
           call = [fn |-> "updateMagnifier", x |-> p.x, y |-> p.y,
                   magCtxOk |-> mok, contextOk |-> TRUE]
    /\ result = NoResult

NextMagnifier == UpdateMagnifier

SpecMagnifier == InitMagnifier /\ [][NextMagnifier]_vars

\* updateMagnifier has left the magnifier as it was: the container was not
\* moved, and the canvas of the magnifier has the size and the content it
\* had.
MagnifierUntouched ==
    /\ ~result.positioned
    /\ result.ctx = NewContext(2 * MagnifierRadius(state), 2 * MagnifierRadius(state))

\* C26: updateMagnifier does nothing when the zoom factor of the state is
\* zero or negative: it does not move the container, resize the canvas of
\* the magnifier or paint on it.
C26_NoOpWhenDisabled ==
    (result.fn = "updateMagnifier" /\ state.magnifierZoomFactor <= 0)
        => MagnifierUntouched

\* What the code gives: nothing is done for the negative factors, and a
\* factor of zero moves the container as a factor of 8 does.
C26_NoOpWhenNegative ==
    result.fn = "updateMagnifier" =>
        /\ state.magnifierZoomFactor < 0 => MagnifierUntouched
        /\ state.magnifierZoomFactor = 0 =>
               /\ result.positioned
               /\ result = [fn |-> "updateMagnifier"]
                           @@ updateMagnifier(
                                  NewContext(2 * MagnifierRadius(state),
                                             2 * MagnifierRadius(state)),
                                  call.x, call.y,
                                  [state EXCEPT !.magnifierZoomFactor = 8],
                                  call.magCtxOk, call.contextOk)

----------------------------------------------------------------------------
(* The colours of the difference composite.  A pixel of a canvas is kept   *)
(* by its R, G, B values, opaque or not painted.  The colour of an image   *)
(* drawn without smoothing from its level 0 is that of the nearest pixel   *)
(* of its data; the colour of an image drawn with smoothing or from a      *)
(* coarser level is kept as the sample taken: the data, the level, the     *)
(* rectangle drawn to and the smoothing, equal samples being equal         *)
(* colours.  unknown: the pixel is covered in part, or blended in a way    *)
(* not followed here.                                                      *)

ClearPixel == [rgb |-> <<0, 0, 0>>, sample |-> <<>>, opaque |-> FALSE, unknown |-> FALSE]

OpaquePixel(rgb) == [rgb |-> rgb, sample |-> <<>>, opaque |-> TRUE, unknown |-> FALSE]

WhitePixel == OpaquePixel(<<255, 255, 255>>)

UnknownPixel == [rgb |-> <<0, 0, 0>>, sample |-> <<>>, opaque |-> FALSE, unknown |-> TRUE]

\* The pixel data of the image a raster was made from.
RasterData(source, s) == IF source.img = s.imageA.id THEN s.imageAData ELSE s.imageBData

\* The pixel of the data that a drawImage call e shows at the centre of
\* canvas pixel (px, py).
NearestIndex(e, px, py) ==
    Floor(RDiv(RMul(RSub(Rat(2 * py + 1, 2), e.y), RInt(e.source.height)), e.height))
        * e.source.width
    + Floor(RDiv(RMul(RSub(Rat(2 * px + 1, 2), e.x), RInt(e.source.width)), e.width))

\* What a drawImage call e of an image draws at canvas pixel (px, py).
ImageColour(e, px, py, s) ==
    IF e.source.level = 0 /\ ~e.imageSmoothingEnabled
    THEN OpaquePixel([c \in 1..3 |->
                         PatternValue(RasterData(e.source, s), NearestIndex(e, px, py), c - 1)])
    ELSE [rgb |-> <<0, 0, 0>>,
          sample |-> <<RasterData(e.source, s), e.source.level,
                       e.source.width, e.source.height,
                       e.x, e.y, e.width, e.height, e.imageSmoothingEnabled>>,
          opaque |-> TRUE, unknown |-> FALSE]

FillColour(fillStyle) ==
    CASE fillStyle = "white" -> WhitePixel
      [] fillStyle = "black" -> OpaquePixel(<<0, 0, 0>>)
      [] OTHER -> UnknownPixel

AbsDifference(a, b) == IF a >= b THEN a - b ELSE b - a

\* The blend mode 'difference' of the colour S on the opaque backdrop D.
Difference(D, S) ==
    IF D.sample = <<>> /\ S.sample = <<>>
    THEN OpaquePixel([c \in 1..3 |-> AbsDifference(D.rgb[c], S.rgb[c])])
    ELSE IF D.sample = S.sample THEN OpaquePixel(<<0, 0, 0>>)
    ELSE UnknownPixel

\* The pixel D after S is drawn on it with globalAlpha g and operation op.
ColourBlend(D, S, g, op) ==
    IF S.unknown \/ g # RInt(1) THEN UnknownPixel
    ELSE IF ~S.opaque THEN D
    ELSE IF op = "source-over" THEN S
    ELSE IF D.unknown THEN UnknownPixel
    ELSE IF op = "difference" THEN (IF D.opaque THEN Difference(D, S) ELSE S)
    ELSE UnknownPixel

ColourPainted(D, S, e, coverage) ==
    CASE coverage = "out" -> D
      [] coverage = "in" -> ColourBlend(D, S, e.globalAlpha, e.globalCompositeOperation)
      [] OTHER -> UnknownPixel

RECURSIVE ColourOf(_, _, _, _)
RECURSIVE ColourAfter(_, _, _, _, _, _)
ColouredBy(e, D, px, py, s) ==
    CASE e.kind = "renderCompositeContent" -> D
      [] e.kind = "fillRect" ->
             ColourPainted(D, FillColour(e.fillStyle), e,
                           Clipped(RectCoverage(e.x, e.y, e.width, e.height, px, py),
                                   e.clips, px, py))
      [] e.kind = "drawImage" /\ ~IsCanvas(e.source) ->
             IF Clipped(RectCoverage(e.x, e.y, e.width, e.height, px, py),
                        e.clips, px, py) = "in"
             THEN ColourPainted(D, ImageColour(e, px, py, s), e, "in")
             ELSE ColourPainted(D, UnknownPixel, e,
                                Clipped(RectCoverage(e.x, e.y, e.width, e.height, px, py),
                                        e.clips, px, py))
      [] e.kind = "drawImage" /\ IsCanvas(e.source) ->
             IF /\ e.x = RInt(0) /\ e.y = RInt(0)
                /\ e.width = RInt(e.source.width) /\ e.height = RInt(e.source.height)
             THEN ColourPainted(D, ColourOf(e.source, px, py, s), e,
                                Clipped(RectCoverage(e.x, e.y, e.width, e.height, px, py),
                                        e.clips, px, py))
             ELSE UnknownPixel
      [] OTHER -> UnknownPixel

ColourAfter(events, i, D, px, py, s) ==
    IF i > Len(events) THEN D
    ELSE ColourAfter(events, i + 1, ColouredBy(events[i], D, px, py, s), px, py, s)

ColourOf(ctx, px, py, s) == ColourAfter(ctx.events, 1, ClearPixel, px, py, s)

----------------------------------------------------------------------------
(* renderCompositeContent in the difference modes, for images of equal or  *)
(* different content.                                                      *)

DiffStates ==
    { [LoadedState(RenderImageSize, RenderImageSize, RenderImageSize, RenderImageSize) EXCEPT
          !.imageBData = dataB,
          !.scale = sc,
          !.imageAMipMaps = IF mips THEN Pyramid(Image(1, RenderImageSize, RenderImageSize), 0)
                            ELSE NoMipMaps,
          !.imageBMipMaps = IF mips THEN Pyramid(Image(2, RenderImageSize, RenderImageSize), 0)
                            ELSE NoMipMaps,
          !.offsetX = ox, !.offsetAY = RInt(1), !.offsetBY = oby,
          !.compositeMode = mode] :
        dataB \in {1, 2}, sc \in {Rat(1, 4), Rat(1, 2), RInt(1), RInt(2)},
        mips \in BOOLEAN, ox \in {RInt(0), Rat(1, 2)}, oby \in {RInt(0), RInt(1)},
        mode \in {"Diff", "InvDiff"} }

InitDiff ==
    /\ prec = 0
    /\ state \in DiffStates
    /\ images = <<>>
    /\ builds = {}
    /\ dom = InitDom
    /\ \E alpha \in {RInt(1), Rat(1, 2)}, ok \in BOOLEAN :
           call = [fn |-> "renderCompositeContent", alpha |-> alpha, contextOk |-> ok]
    /\ result = NoResult

NextDiff == RenderCompositeContent

SpecDiff == InitDiff /\ [][NextDiff]_vars

\* The pixels of the canvas that image A covers, and those that image B
\* covers.
CoveredBy(s, imageType) ==
    { p \in (0..(s.canvas.width - 1)) \X (0..(s.canvas.height - 1)) :
        RectCoverage(imageToCanvasCoords(RInt(0), RInt(0), imageType, s).x,
                     imageToCanvasCoords(RInt(0), RInt(0), imageType, s).y,
                     RMul(RInt(SlotImage(s, imageType).width), s.scale),
                     RMul(RInt(SlotImage(s, imageType).height), s.scale),
                     p[1], p[2]) = "in" }

\* renderCompositeContent has drawn the inverted difference, at alpha 1, of
\* images A and B of the same content at the same offsets.
C29_Scenario ==
    /\ result.fn = "renderCompositeContent"
    /\ call.contextOk /\ call.alpha = RInt(1)
    /\ state.compositeMode = "InvDiff"
    /\ state.imageAData = state.imageBData
    /\ state.imageA.width = state.imageB.width /\ state.imageA.height = state.imageB.height
    /\ state.offsetAX = state.offsetBX /\ state.offsetAY = state.offsetBY

\* C29: in mode InvDiff, with images A and B identical and at the same
\* offsets and alpha 1, every pixel of the canvas that the images cover is
\* white in the composite: each channel is 255 - |a - b| = 255.
C29_IdenticalImagesWhite ==
    C29_Scenario =>
        \A p \in CoveredBy(state, "A") : ColourOf(result.ctx, p[1], p[2], state) = WhitePixel

\* The scenario with the images drawn pixel for pixel, and a pixel of the
\* image whose colour is not white.
C29_Witness ==
    /\ C29_Scenario
    /\ state.scale = RInt(1) /\ state.imageAMipMaps = NoMipMaps
    /\ <<1, 2>> \in CoveredBy(state, "A")
    /\ ColourOf(drawSingleImage(NewContext(state.canvas.width, state.canvas.height),
                                state, "A"), 1, 2, state) \notin {WhitePixel, UnknownPixel}


\* Where the magnifier shows what the main view shows at canvas position c,
\* the pointer being at (x, y): centre + z * (c - pointer).
Magnified(c, x, y, s) ==
    P(RAdd(RInt(MagnifierRadius(s)), RMul(RInt(s.magnifierZoomFactor), RSub(c.x, x))),
      RAdd(RInt(MagnifierRadius(s)), RMul(RInt(s.magnifierZoomFactor), RSub(c.y, y))))

\* Points of an image: its corners, a point inside and a point outside.
C28_ImagePoints ==
    { P(RInt(0), RInt(0)), P(RInt(RenderImageSize), RInt(RenderImageSize)),
      P(Rat(3, 2), RInt(1)), P(RInt(-2), RInt(7)) }

\* The images drawn by updateMagnifier.
C28_ImagesDrawn ==
    { e \in AllEvents(result.ctx) : e.kind = "drawImage" /\ ~IsCanvas(e.source) }

----------------------------------------------------------------------------
(* The mouse: handleMouseDown, handleMouseMove, handleMouseUp,              *)
(* handleWipeUIInteraction and handleKeyUp.  A mouse event e has the        *)
(* position clientX, clientY and the keys shiftKey and ctrlKey (ctrlKey or  *)
(* metaKey); the canvas is at the origin of the viewport, so clientX and    *)
(* clientY are canvas coordinates.  The cursor styles are left out.         *)

\* Math.round.
MathRound(r) == Floor(RAdd(r, Rat(1, 2)))

\* The remainder operator % of the program, for a positive divisor.
Remainder(a, n) == IF a >= 0 THEN a % n ELSE -((-a) % n)

\* Math.atan2(dy, dx) * (180 / Math.PI) for the directions of the axes, the
\* only ones the pointer of the model takes from the wipe centre.
Atan2Known(dy, dx) == dy[1] = 0 \/ dx[1] = 0

Atan2Degrees(dy, dx) ==
    IF dy[1] = 0 THEN (IF dx[1] >= 0 THEN 0 ELSE 180)
    ELSE IF dy[1] > 0 THEN 90 ELSE -90

\* A hundred times the cosine and the sine of 20, 45 and 70 degrees, the
\* angles of the alpha arc for alpha 1, 1/2 and 0, to two digits.
Cos100(a) == CASE a = 20 -> 94 [] a = 45 -> 71 [] a = 70 -> 34

Sin100(a) == CASE a = 20 -> 34 [] a = 45 -> 71 [] a = 70 -> 94

\* The point of calculateAlphaSliderPosition, slider being what the
\* function returns: the angle is slider.degrees - slider.minus.
AlphaSliderPoint(slider) ==
    P(RAdd(slider.centre.x,
           RMul(RInt(slider.radius),
                RAdd(RMul(MathCos(TimesPiOver180(slider.degrees)),
                          Rat(Cos100(Floor(slider.minus)), 100)),
                     RMul(MathSin(TimesPiOver180(slider.degrees)),
                          Rat(Sin100(Floor(slider.minus)), 100))))),
      RAdd(slider.centre.y,
           RMul(RInt(slider.radius),
                RSub(RMul(MathSin(TimesPiOver180(slider.degrees)),
                          Rat(Cos100(Floor(slider.minus)), 100)),
                     RMul(MathCos(TimesPiOver180(slider.degrees)),
                          Rat(Sin100(Floor(slider.minus)), 100))))))

\* Math.sqrt(Math.pow(x - c.x, 2) + Math.pow(y - c.y, 2)) <= radius.
WithinRadius(x, y, c, radius) == RLe(Dist2(P(x, y), c), RInt(radius * radius))

\* handleMouseDown, lines 1525-1578: the handle of the wipe interface that
\* is clicked at (x, y), "none" when none is.
HandleAt(x, y, s, wipePos) ==
    IF ~(s.isWipeEnabled /\ s.imageALoaded /\ s.imageBLoaded) THEN "none"
    ELSE IF WithinRadius(x, y, wipePos, TRANSLATION_HANDLE_RADIUS) THEN "translation"
    ELSE IF s.isSimpleWipe THEN "none"
    ELSE IF WithinRadius(x, y, calculateRotationHandlePosition(wipePos, Num(s.wipeAngle)),
                         ROTATION_HANDLE_RADIUS)
    THEN "rotation"
    ELSE IF /\ ~IsNaN(s.wipeAlpha)
            /\ WithinRadius(x, y,
                            AlphaSliderPoint(
                                calculateAlphaSliderPosition(wipePos, Num(s.wipeAngle),
                                                             s.wipeAlpha)),
                            ALPHA_HANDLE_RADIUS)
    THEN "alpha"
    ELSE "none"

\* handleMouseDown, lines 1586-1597: the side of the wipe line clicked.
SideOf(x, y, s, wipePos) ==
    IF RLt(RAdd(RMul(RSub(x, wipePos.x), MathCos(TimesPiOver180(Num(s.wipeAngle)))),
                RMul(RSub(y, wipePos.y), MathSin(TimesPiOver180(Num(s.wipeAngle))))),
           RInt(0))
    THEN "A" ELSE "B"

StartHandle(v, handle, x, y) ==
    View(v.state, [v.dom EXCEPT !.accumulatedDX = RInt(0), !.accumulatedDY = RInt(0),
                                !.activeHandle = handle,
                                !.dragStartX = x, !.dragStartY = y])

StartDrag(v, e, side) ==
    View(v.state, [v.dom EXCEPT !.accumulatedDX = RInt(0), !.accumulatedDY = RInt(0),
                                !.isDragging = TRUE,
                                !.dragStartX = e.clientX, !.dragStartY = e.clientY,
                                !.dragSide = side])

handleMouseDown(v, e) ==
    IF HandleAt(e.clientX, e.clientY, v.state, getWipePositionInCanvasCoords(v.state)) # "none"
    THEN StartHandle(v, HandleAt(e.clientX, e.clientY, v.state,
                                 getWipePositionInCanvasCoords(v.state)),
                     e.clientX, e.clientY)
    ELSE IF /\ e.shiftKey /\ v.state.isWipeEnabled
            /\ v.state.imageALoaded /\ v.state.imageBLoaded
    THEN StartDrag(v, e, SideOf(e.clientX, e.clientY, v.state,
                                getWipePositionInCanvasCoords(v.state)))
    ELSE StartDrag(v, e, v.dom.dragSide)

\* handleWipeUIInteraction, lines 1793-1827: the wipe alpha for the angle
\* relativeAngle, a whole number of degrees.
AlphaAtAngle(relativeAngle, wipeAlpha) ==
    IF relativeAngle >= ALPHA_ARC_END_ANGLE /\ relativeAngle <= ALPHA_ARC_START_ANGLE
    THEN RSub(RInt(1), Rat(relativeAngle - ALPHA_ARC_END_ANGLE,
                           ALPHA_ARC_START_ANGLE - ALPHA_ARC_END_ANGLE))
    ELSE IF \/ relativeAngle < ALPHA_ARC_START_ANGLE
            \/ 2 * relativeAngle
                 > 2 * Remainder((ALPHA_ARC_START_ANGLE + ALPHA_ARC_END_ANGLE + 360) \div 2, 360)
    THEN RInt(1)
    ELSE IF relativeAngle > ALPHA_ARC_END_ANGLE THEN RInt(0)
    ELSE wipeAlpha

\* The pointer at (x, y) is in a direction from the wipe centre whose angle
\* the model has.
DirectionKnown(x, y, wipePos) == Atan2Known(RSub(y, wipePos.y), RSub(x, wipePos.x))

handleWipeUIInteraction(s, activeHandle, x, y, wipePos) ==
    CASE activeHandle = "translation" ->
             [s EXCEPT !.wipePositionInImageACoords = canvasToImageCoords(x, y, "A", s)]
      [] activeHandle = "rotation" ->
             [s EXCEPT !.wipeAngle = Atan2Degrees(RSub(y, wipePos.y), RSub(x, wipePos.x))]
      [] activeHandle = "alpha" ->
             [s EXCEPT !.wipeAlpha =
                 AlphaAtAngle(
                     360 - Remainder(Atan2Degrees(RSub(y, wipePos.y), RSub(x, wipePos.x))
                                       - s.wipeAngle + 360, 360),
                     s.wipeAlpha)]

\* handleMouseMove, lines 1680-1684: both images are moved together.
\* A faulty drag: the wipe centre is kept where it is on the canvas.
PanWithWipeBehind(v, e) ==
    View([v.state EXCEPT
             !.offsetX = NAdd(@, NSub(e.clientX, v.dom.dragStartX)),
             !.offsetY = NAdd(@, NSub(e.clientY, v.dom.dragStartY)),
             !.wipePositionInImageACoords =
                 P(NSub(@.x, NDiv(NSub(e.clientX, v.dom.dragStartX), v.state.scale)),
                   NSub(@.y, NDiv(NSub(e.clientY, v.dom.dragStartY), v.state.scale)))],
         [v.dom EXCEPT !.dragStartX = e.clientX, !.dragStartY = e.clientY])

Pan(v, e) ==
    View([v.state EXCEPT
             !.offsetX = NAdd(@, NSub(e.clientX, v.dom.dragStartX)),
             !.offsetY = NAdd(@, NSub(e.clientY, v.dom.dragStartY))],
         [v.dom EXCEPT !.dragStartX = e.clientX, !.dragStartY = e.clientY])

\* Lines 1661-1678: one image is moved by intDX, intDY image pixels.
\* A faulty move: the image is moved by the pointer's movement as it is.
MoveImageUnrounded(s, dragSide, intDX, intDY, accDX, accDY) ==
    IF dragSide = "A"
    THEN [s EXCEPT !.offsetAX = NAdd(@, NMul(accDX, s.scale)),
                   !.offsetAY = NAdd(@, NMul(accDY, s.scale))]
    ELSE [s EXCEPT !.offsetBX = NAdd(@, NMul(accDX, s.scale)),
                   !.offsetBY = NAdd(@, NMul(accDY, s.scale))]

MoveImage(s, dragSide, intDX, intDY, accDX, accDY) ==
    IF dragSide = "A"
    THEN [s EXCEPT !.offsetAX = NAdd(@, NMul(RInt(intDX), s.scale)),
                   !.offsetAY = NAdd(@, NMul(RInt(intDY), s.scale))]
    ELSE [s EXCEPT !.offsetBX = NAdd(@, NMul(RInt(intDX), s.scale)),
                   !.offsetBY = NAdd(@, NMul(RInt(intDY), s.scale))]

\* Lines 1653-1678, accDX and accDY being the accumulated movement with
\* this event's added.
DragOne(v, e, accDX, accDY) ==
    IF MathRound(accDX) # 0 \/ MathRound(accDY) # 0
    THEN View(MoveImage(v.state, v.dom.dragSide, MathRound(accDX), MathRound(accDY),
                        accDX, accDY),
              [updatePSNR(MoveImage(v.state, v.dom.dragSide, MathRound(accDX),
                                    MathRound(accDY), accDX, accDY), v.dom)
                 EXCEPT !.accumulatedDX = NSub(accDX, RInt(MathRound(accDX))),
                        !.accumulatedDY = NSub(accDY, RInt(MathRound(accDY))),
                        !.dragStartX = e.clientX, !.dragStartY = e.clientY])
    ELSE View(v.state, [v.dom EXCEPT !.accumulatedDX = accDX, !.accumulatedDY = accDY,
                                     !.dragStartX = e.clientX, !.dragStartY = e.clientY])

\* Lines 1645-1692.
DragImages(v, e) ==
    IF /\ e.shiftKey /\ v.state.isWipeEnabled
       /\ v.state.imageALoaded /\ v.state.imageBLoaded /\ v.dom.dragSide # "none"
    THEN DragOne(v, e,
                 NAdd(v.dom.accumulatedDX,
                      NDiv(NSub(e.clientX, v.dom.dragStartX), v.state.scale)),
                 NAdd(v.dom.accumulatedDY,
                      NDiv(NSub(e.clientY, v.dom.dragStartY), v.state.scale)))
    ELSE Pan(v, e)

\* Lines 1694-1701.
MoveMagnifier(v, e) ==
    IF e.ctrlKey /\ v.state.magnifierZoomFactor > 0
    THEN ShowMagnifierContainer(View(v.state, [v.dom EXCEPT !.showMagnifier = TRUE]))
    ELSE View(v.state, [v.dom EXCEPT !.showMagnifier = FALSE, !.magnifierHidden = TRUE])

\* Lines 1613-1631: the position kept in lastMouseX, lastMouseY.
ClampedX(v, e) ==
    IF v.dom.isDragging \/ v.dom.activeHandle # "none"
    THEN RMax(RInt(0), RMin(e.clientX, RInt(v.state.canvas.width)))
    ELSE e.clientX

ClampedY(v, e) ==
    IF v.dom.isDragging \/ v.dom.activeHandle # "none"
    THEN RMax(RInt(0), RMin(e.clientY, RInt(v.state.canvas.height)))
    ELSE e.clientY

handleMouseMove(v, e) ==
    IF v.dom.activeHandle # "none"
    THEN View(handleWipeUIInteraction(v.state, v.dom.activeHandle,
                                      ClampedX(v, e), ClampedY(v, e),
                                      getWipePositionInCanvasCoords(v.state)),
              [v.dom EXCEPT !.lastMouseX = ClampedX(v, e), !.lastMouseY = ClampedY(v, e)])
    ELSE IF v.dom.isDragging
    THEN MoveMagnifier(
             DragImages(View(v.state, [v.dom EXCEPT !.lastMouseX = ClampedX(v, e),
                                                    !.lastMouseY = ClampedY(v, e)]), e),
             e)
    ELSE MoveMagnifier(View(v.state, [v.dom EXCEPT !.lastMouseX = e.clientX,
                                                   !.lastMouseY = e.clientY]), e)

handleMouseUp(v) ==
    View(v.state, [v.dom EXCEPT !.isDragging = FALSE, !.activeHandle = "none",
                                !.dragSide = "none",
                                !.showMagnifier = FALSE, !.magnifierHidden = TRUE])

\* handleKeyUp; key is e.key.toLowerCase() ('shift' updates the cursor only).
handleKeyUp(v, key) ==
    IF key = "control"
    THEN View(v.state, [v.dom EXCEPT !.showMagnifier = FALSE, !.magnifierHidden = TRUE])
    ELSE v

----------------------------------------------------------------------------
(* The mouse, the wheel, the keys and the attributes on a connected        *)
(* element whose canvas is large enough for the handles of the wipe.       *)

PointerCanvasSize == 200   \* the width and the height of the canvas
MaxPan == 80               \* the shared offsets stay within -MaxPan .. MaxPan
MaxShift == 130            \* the offsets of an image within -MaxShift .. MaxShift
MaxGestures == 1           \* presses of the mouse button in one run
MaxWheels == 1             \* wheel events in one run
MinScale == 9              \* the wheel keeps the scale within
MaxScale == 45             \*   MinScale .. MaxScale

\* The connected element with the canvas of that size.
PointerStart ==
    View([InitState EXCEPT !.canvas = Canvas(PointerCanvasSize, PointerCanvasSize)],
         [InitDom EXCEPT !.connected = TRUE])

\* The element as created, with image B, and with images A and B loaded:
\* with A of 20 by 8 the scale is 9, the offsets are (10, 64) and the wipe
\* centre is at (100, 100) of the canvas; with B alone the scale is 90.
PointerViews ==
    { PointerStart,
      AfterOnLoad(PointerStart, "B", Image(1, 2, 2)),
      AfterOnLoad(AfterOnLoad(PointerStart, "A", Image(1, 20, 8)), "B", Image(2, 2, 2)) }

\* Positions of the pointer: the middle of the canvas and the points 63 to
\* its right, below it and to its left, which are on the rotation handle
\* when the wipe centre is in the middle, and 7 image pixels apart at the
\* scale 9, three and a half at the scale 18.
PointerPoints ==
    { P(RInt(100), RInt(100)), P(RInt(163), RInt(100)), P(RInt(100), RInt(163)),
      P(RInt(37), RInt(100)) }

\* The point of the alpha arc where the handle is for the wipe angle 0 and
\* the wipe alpha 1, the wipe centre being in the middle of the canvas.
AlphaPoint == P(RInt(138), RInt(86))

\* The points where the button is pressed: the alpha point when the alpha
\* handle is there.
PressPoints(s) ==
    IF HandleAt(AlphaPoint.x, AlphaPoint.y, s, getWipePositionInCanvasCoords(s)) = "alpha"
    THEN PointerPoints \cup {AlphaPoint}
    ELSE PointerPoints

MouseEvent(p, shiftKey, ctrlKey) ==
    [clientX |-> p.x, clientY |-> p.y, shiftKey |-> shiftKey, ctrlKey |-> ctrlKey]

WipeKeys == {"v", "w"}

WithinPan(r) == RLe(RInt(-MaxPan), r) /\ RLe(r, RInt(MaxPan))

WithinShift(r) == RLe(RInt(-MaxShift), r) /\ RLe(r, RInt(MaxShift))

OffsetsWithinPan(s) ==
    /\ WithinPan(s.offsetX) /\ WithinPan(s.offsetY)
    /\ WithinShift(s.offsetAX) /\ WithinShift(s.offsetAY)
    /\ WithinShift(s.offsetBX) /\ WithinShift(s.offsetBY)

\* The view v is the element's next state, its offsets within the bound.
BecomesWithin(v) == OffsetsWithinPan(v.state) /\ Becomes(v)

\* The view v is the element's next state, and the event is counted.
BecomesCounted(v, counted) ==
    /\ OffsetsWithinPan(v.state)
    /\ state' = v.state
    /\ dom' = v.dom
    /\ call' = counted
    /\ UNCHANGED <<images, builds, prec, result>>

InitPointer ==
    /\ prec = 0
    /\ \E v \in PointerViews : state = v.state /\ dom = v.dom
    /\ images = <<>>
    /\ builds = {}
    /\ call = [fn |-> "pointer", gestures |-> 0, wheels |-> 0]
    /\ result = NoResult

MouseDown ==
    /\ call.fn = "pointer"
    /\ ~dom.isDragging /\ dom.activeHandle = "none"
    /\ call.gestures < MaxGestures
    /\ \E p \in PressPoints(state) : \E shiftKey \in BOOLEAN :
           BecomesCounted(handleMouseDown(View(state, dom), MouseEvent(p, shiftKey, FALSE)),
                          [call EXCEPT !.gestures = @ + 1])

\* A mouse move over the canvas: the listener of the canvas and the one of
\* the document both run handleMouseMove (lines 1407 and 1410).
MouseMoved(v, e) == handleMouseMove(handleMouseMove(v, e), e)

\* The pointer can be moved to p: the model has the angle of its direction
\* from the wipe centre when a handle that turns is held.
CanMoveTo(p) ==
    dom.activeHandle \in {"rotation", "alpha"}
       => DirectionKnown(p.x, p.y, getWipePositionInCanvasCoords(state))

MouseMove ==
    /\ call.fn = "pointer"
    /\ \E p \in PointerPoints : \E shiftKey \in BOOLEAN :
           /\ CanMoveTo(p)
           /\ BecomesWithin(MouseMoved(View(state, dom), MouseEvent(p, shiftKey, FALSE)))

MouseUp ==
    /\ call.fn = "pointer"
    /\ Becomes(handleMouseUp(View(state, dom)))

WipeKeyDown ==
    /\ call.fn = "pointer"
    /\ \E key \in WipeKeys : Becomes(handleKeyDown(View(state, dom), key))

\* The 'r' key.
ResetKey ==
    /\ call.fn = "pointer"
    /\ Becomes(handleKeyDown(View(state, dom), "r"))

WipeModeChanged ==
    /\ call.fn = "pointer"
    /\ \E value \in {"simple", "full"} :
           Becomes(setAttribute(View(state, dom), "wipe-mode", value))

NextPointer ==
    MouseDown \/ MouseMove \/ MouseUp \/ WipeKeyDown \/ ResetKey \/ WipeModeChanged

SpecPointer == InitPointer /\ [][NextPointer]_vars

\* A wheel event with the pointer at a point of the canvas.
PointerWheel ==
    /\ call.fn = "pointer"
    /\ call.wheels < MaxWheels
    /\ \E deltaY \in WheelDeltas : \E p \in PointerPoints :
           /\ state.imageALoaded \/ state.imageBLoaded
                 => /\ RLe(RInt(MinScale), NMul(state.scale, WheelZoomFactor(deltaY)))
                    /\ RLe(NMul(state.scale, WheelZoomFactor(deltaY)), RInt(MaxScale))
           /\ BecomesCounted(handleWheel(View(state, dom), deltaY, p.x, p.y),
                             [call EXCEPT !.wheels = @ + 1])

\* The 'w' key.
CentreKey ==
    /\ call.fn = "pointer"
    /\ Becomes(handleKeyDown(View(state, dom), "w"))

NextWheel == MouseDown \/ MouseMove \/ MouseUp \/ CentreKey \/ ResetKey \/ PointerWheel

SpecWheel == InitPointer /\ [][NextWheel]_vars

----------------------------------------------------------------------------
(* Reset.                                                                  *)

\* The wipe settings and the per-image offsets of a reset view.
ResetValues(s) ==
    /\ s.offsetAX = RInt(0) /\ s.offsetAY = RInt(0)
    /\ s.offsetBX = RInt(0) /\ s.offsetBY = RInt(0)
    /\ s.wipeAngle = 0 /\ s.wipeAlpha = RInt(1) /\ ~s.isSimpleWipe

\* C21: when the 'r' key is handled with at least one image loaded, the
\* state after it, the attribute callbacks it triggers having run, has the
\* per-image offsets 0, the wipe angle 0, the wipe alpha 1 and the full wipe.
C21_ResetRestores ==
    [][((state.imageALoaded \/ state.imageBLoaded) /\ ResetKey) => ResetValues(state')]_vars

\* What holds of the code: the reset leaves the per-image offsets at 0 and
\* the wipe in the full mode.
C21_ResetOffsetsAndMode ==
    [][((state.imageALoaded \/ state.imageBLoaded) /\ ResetKey)
          => /\ state'.offsetAX = RInt(0) /\ state'.offsetAY = RInt(0)
             /\ state'.offsetBX = RInt(0) /\ state'.offsetBY = RInt(0)
             /\ ~state'.isSimpleWipe]_vars

----------------------------------------------------------------------------
(* Dragging the images.                                                    *)

\* The step is a mouse move to p, with the Shift key as given.
MovedTo(p, shiftKey) ==
    View(state', dom') = MouseMoved(View(state, dom), MouseEvent(p, shiftKey, FALSE))

\* A move with this Shift key moves one image only.
MovesOneImage(shiftKey) ==
    /\ shiftKey /\ state.isWipeEnabled
    /\ state.imageALoaded /\ state.imageBLoaded /\ dom.dragSide # "none"

\* d is a whole number of image pixels at the scale.
WholePixels(d, scale) == RDiv(d, scale)[2] = 1

\* The shared offset has moved by the movement of the pointer since the
\* last mouse event, and nothing else of the state has changed.
PannedTo(p) ==
    state' = [state EXCEPT !.offsetX = RAdd(@, RSub(p.x, dom.dragStartX)),
                           !.offsetY = RAdd(@, RSub(p.y, dom.dragStartY))]

\* Only the offsets of the image of the side the drag started on have
\* changed, by whole image pixels.
OneImageMoved ==
    IF dom.dragSide = "A"
    THEN /\ state' = [state EXCEPT !.offsetAX = state'.offsetAX,
                                   !.offsetAY = state'.offsetAY]
         /\ WholePixels(RSub(state'.offsetAX, state.offsetAX), state.scale)
         /\ WholePixels(RSub(state'.offsetAY, state.offsetAY), state.scale)
    ELSE /\ state' = [state EXCEPT !.offsetBX = state'.offsetBX,
                                   !.offsetBY = state'.offsetBY]
         /\ WholePixels(RSub(state'.offsetBX, state.offsetBX), state.scale)
         /\ WholePixels(RSub(state'.offsetBY, state.offsetBY), state.scale)

\* C25: a mouse move of a drag without Shift changes the shared offset by
\* the pointer's movement and nothing else of the state; a mouse move of a
\* drag with Shift that started, with the wipe enabled and both images
\* loaded, on the side of image A (of image B) changes only offsetAX and
\* offsetAY (offsetBX and offsetBY), by whole numbers of image pixels times
\* the scale.
C25_DragFrame ==
    [][(dom.isDragging /\ dom.activeHandle = "none")
          => \A p \in PointerPoints : \A shiftKey \in BOOLEAN :
                 MovedTo(p, shiftKey)
                    => IF MovesOneImage(shiftKey) THEN OneImageMoved ELSE PannedTo(p)]_vars

\* A drag with Shift that started on the side of A has moved image A, with
\* half an image pixel of the movement kept for the next event, and the
\* view was panned.
C25_Witness ==
    /\ dom.isDragging /\ dom.dragSide = "A"
    /\ state.offsetAX # RInt(0) /\ state.offsetBX = RInt(0)
    /\ dom.accumulatedDX # RInt(0)
    /\ state.offsetY # RInt(64)

----------------------------------------------------------------------------
(* The wipe centre.                                                        *)

\* C24: a step that changes wipePositionInImageACoords is a mouse move with
\* the translation handle held, or a key that centres the wipe ('w' in the
\* full wipe, 'r'); a mouse move that pans or that moves one image, and a
\* wheel event, leave it as it is.
C24_WipeCentreFrame ==
    [][state'.wipePositionInImageACoords # state.wipePositionInImageACoords
          => \/ dom.activeHandle = "translation" /\ MouseMove
             \/ CentreKey
             \/ ResetKey]_vars

\* The view was zoomed by the wheel and image A was moved in a drag, and
\* the wipe centre is where the load put it, at (10, 4) of image A, which
\* is no longer in the middle of the canvas.
C24_Witness ==
    /\ state.scale = RInt(18) /\ dom.isDragging /\ state.offsetAX # RInt(0)
    /\ state.wipePositionInImageACoords = P(RInt(10), RInt(4))
    /\ getWipePositionInCanvasCoords(state) # P(RInt(100), RInt(100))

----------------------------------------------------------------------------
(* The wheel.                                                              *)

\* The step is a wheel event of deltaY with the pointer at p.
WheeledAt(p, deltaY) ==
    View(state', dom') = handleWheel(View(state, dom), deltaY, p.x, p.y)

\* The point of each image under the canvas point p is the same in the
\* next state.
SamePointUnder(p) ==
    \A t \in {"A", "B"} :
        canvasToImageCoords(p.x, p.y, t, state') = canvasToImageCoords(p.x, p.y, t, state)

----------------------------------------------------------------------------
(* The magnifier's visibility: the Control key, mouse moves with Control   *)
(* or Command held, and the attribute magnifier-zoom-factor.               *)

\* A mouse move with or without the Control or Command key.
ControlMouseMove ==
    /\ call.fn = "pointer"
    /\ \E p \in PointerPoints : \E ctrlKey \in BOOLEAN :
           /\ CanMoveTo(p)
           /\ BecomesWithin(MouseMoved(View(state, dom), MouseEvent(p, FALSE, ctrlKey)))

ControlKeyDown ==
    /\ call.fn = "pointer"
    /\ Becomes(handleKeyDown(View(state, dom), "control"))

ControlKeyUp ==
    /\ call.fn = "pointer"
    /\ Becomes(handleKeyUp(View(state, dom), "control"))

ZoomFactorValues == {"0", "-1", "2"}

ZoomFactorChanged ==
    /\ call.fn = "pointer"
    /\ \E value \in ZoomFactorValues :
           Becomes(setAttribute(View(state, dom), "magnifier-zoom-factor", value))

NextMagnifierView ==
    \/ MouseDown \/ ControlMouseMove \/ MouseUp \/ PointerWheel
    \/ ControlKeyDown \/ ControlKeyUp \/ ZoomFactorChanged

SpecMagnifierView == InitPointer /\ [][NextMagnifierView]_vars

\* C27: in every state with magnifierZoomFactor <= 0 the magnifier is not
\* shown: showMagnifier is false and the container is hidden, whatever
\* keys were pressed and wherever the mouse was moved with Control held.
C27_DisabledNotShown ==
    state.magnifierZoomFactor <= 0 => ~dom.showMagnifier /\ dom.magnifierHidden

\* The factor is -1, the mouse was moved and the button is held.
C27_Witness ==
    /\ state.magnifierZoomFactor = -1
    /\ dom.lastMouseX # RInt(0) /\ dom.isDragging

----------------------------------------------------------------------------
(* The slots of the element: flag, image and pixel data.                   *)

SlotData(s, t) == IF t = "A" THEN s.imageAData ELSE s.imageBData

\* A slot whose flag, image and pixel data agree.
SlotConsistent(s, t) ==
    /\ SlotLoaded(s, t) <=> SlotImage(s, t) # NoImage
    /\ ~SlotLoaded(s, t) => SlotData(s, t) = NoData

\* C31: in every reachable state of the element and for each slot, the
\* loaded flag is true exactly when the slot's image is non-null, and the
\* pixel data are null whenever the flag is false; so fitImagesToViewport,
\* which reads imageA! / imageB! under the flags alone, reads an image.
C31_FlagIffImage == \A t \in ImageTypes : SlotConsistent(state, t)

\* A slot that was loaded, cleared by a reload and is empty while the other
\* slot holds an image: load 1 completed, load 3 in flight for the same slot.
C31_Witness ==
    /\ Len(images) = 3
    /\ images[1].status = "loaded"
    /\ images[2].status = "loaded"
    /\ images[3].status = "loading"
    /\ images[1].imageType = "A" /\ images[2].imageType = "B" /\ images[3].imageType = "A"
    /\ ~state.imageALoaded /\ state.imageA = NoImage /\ state.imageBLoaded

----------------------------------------------------------------------------
(* The wipe flag and the composite mode.                                   *)

SingleModes == {"A", "B"}

\* C32: in every reachable state isWipeEnabled is true exactly when
\* compositeMode is neither 'A' nor 'B', and the remembered
\* lastCompositeMode is never 'A' or 'B', over every sequence of
\* display-mode and wipe-mode changes, resets and key presses.
C32_WipeIffComposite ==
    /\ state.isWipeEnabled <=> state.compositeMode \notin SingleModes
    /\ dom.lastCompositeMode \notin SingleModes

\* Mode A entered from the difference mode, in the simple wipe: the wipe is
\* off and the mode to return to is remembered.
C32_Witness ==
    /\ state.compositeMode = "A"
    /\ ~state.isWipeEnabled
    /\ state.isSimpleWipe
    /\ dom.lastCompositeMode = "Diff"

----------------------------------------------------------------------------
(* The wipe type: the angle and the alpha across the simple wipe.  The     *)
(* angle and the alpha that the full wipe had when the simple wipe was     *)
(* entered are kept in call until the full wipe is entered again.          *)

NoSwitch == [fn |-> "wipe", switched |-> FALSE, angle |-> 0, alpha |-> RInt(1)]

Switched(s) == [fn |-> "wipe", switched |-> TRUE, angle |-> s.wipeAngle, alpha |-> s.wipeAlpha]

\* An element with images A and B loaded, in the full wipe.
WipeModeStart ==
    AfterOnLoad(AfterOnLoad(View(InitState, InitDom), "A", Image(1, 8, 4)), "B", Image(2, 2, 2))

InitWipeMode ==
    /\ prec = 0
    /\ state = WipeModeStart.state
    /\ dom = WipeModeStart.dom
    /\ images = <<>>
    /\ builds = {}
    /\ call = NoSwitch
    /\ result = NoResult

\* The view v is the element's next state; a step from the enabled full
\* wipe to the simple wipe records the angle and the alpha it leaves.
BecomesTracked(v) ==
    /\ state' = v.state
    /\ dom' = v.dom
    /\ call' = IF ~state.isSimpleWipe /\ state.isWipeEnabled /\ v.state.isSimpleWipe
               THEN Switched(state)
               ELSE IF state.isSimpleWipe /\ ~v.state.isSimpleWipe THEN NoSwitch
               ELSE call
    /\ UNCHANGED <<images, builds, prec, result>>

\* The keys that do not set the angle or the alpha: wipe type, display
\* modes, checkerboard and help.
ModeKeys == {"v", "w", "a", "b", "u", "o", "d", "i", "c", "h"}

ModeKeyDown ==
    /\ call.fn = "wipe"
    /\ \E key \in ModeKeys : BecomesTracked(handleKeyDown(View(state, dom), key))

\* A wheel event with the mouse at the centre of the canvas.
ModeWheel ==
    /\ call.fn = "wipe"
    /\ \E deltaY \in WheelDeltas :
           /\ RLe(Rat(1, MaxZoom), NMul(state.scale, WheelZoomFactor(deltaY)))
           /\ RLe(NMul(state.scale, WheelZoomFactor(deltaY)), RInt(MaxZoom))
           /\ BecomesTracked(handleWheel(View(state, dom), deltaY,
                                         NDiv(RInt(state.canvas.width), RInt(2)),
                                         NDiv(RInt(state.canvas.height), RInt(2))))

\* The attribute wipe-mode is set.
WipeTypeChanged ==
    /\ call.fn = "wipe"
    /\ \E value \in AttributeValues("wipe-mode") :
           BecomesTracked(setAttribute(View(state, dom), "wipe-mode", value))

\* The angle or the alpha is set through its attribute, in the full wipe.
WipeSettingChanged ==
    /\ call.fn = "wipe"
    /\ ~call.switched /\ ~state.isSimpleWipe
    /\ \E name \in {"wipe-angle", "wipe-alpha"} : \E value \in AttributeValues(name) :
           BecomesTracked(setAttribute(View(state, dom), name, value))

NextWipeMode == ModeKeyDown \/ ModeWheel \/ WipeTypeChanged \/ WipeSettingChanged

SpecWipeMode == InitWipeMode /\ [][NextWipeMode]_vars

\* A step that leaves the simple wipe entered from the full wipe.
BackToFull == call.fn = "wipe" /\ call.switched /\ state.isSimpleWipe /\ ~state'.isSimpleWipe

\* C33: after switching from the full wipe with angle t and alpha a to the
\* simple wipe and later back to the full wipe, the angle is t and the alpha
\* is a again, whatever display-mode keys, zooms, checkerboard and help
\* toggles came in between.
C33_AngleAndAlphaRestored ==
    [][BackToFull => state'.wipeAngle = call.angle /\ state'.wipeAlpha = call.alpha]_vars

\* The alpha is restored, and the angle when the wipe stayed enabled in the
\* simple wipe or when it was 0.
C33_AlphaRestored == [][BackToFull => state'.wipeAlpha = call.alpha]_vars

----------------------------------------------------------------------------
(* The help screen.                                                        *)

\* C34: the help screen is displayed in every state in which neither image
\* is loaded (initially, while a reload is in flight, after a failed load);
\* with an image loaded it is displayed exactly when the user toggled it on.
C34_HelpWhenNothingLoaded ==
    IF ~state.imageALoaded /\ ~state.imageBLoaded
    THEN dom.helpScreenDisplay = "flex"
    ELSE dom.helpScreenDisplay = "flex" <=> state.showHelp /\ dom.manuallyToggledHelp

\* What the loads keep: the help screen is displayed until the first image
\* is loaded and hidden from then on, cleared slots included.
C34_HelpUntilFirstLoad ==
    dom.helpScreenDisplay = "flex" <=> \A i \in 1..Len(images) : images[i].status # "loaded"

----------------------------------------------------------------------------
(* The wipe centre after a load.                                           *)

\* A step in which the onload handler of a load runs.
OnLoadCompletes ==
    /\ Len(images') = Len(images)
    /\ \E i \in 1..Len(images) : images[i].status = "loading" /\ images'[i].status = "loaded"

CanvasCentre(s) == P(NDiv(RInt(s.canvas.width), RInt(2)), NDiv(RInt(s.canvas.height), RInt(2)))

SameTransform(s, t) == s.scale = t.scale /\ s.offsetX = t.offsetX /\ s.offsetY = t.offsetY

\* C35: when an image load completes, the wipe centre converted to canvas
\* coordinates with the resulting scale and offsets is the centre of the
\* canvas, for every order of loading A and B and every pair of sizes.
C35_WipeCentredAfterLoad ==
    [][OnLoadCompletes => getWipePositionInCanvasCoords(state') = CanvasCentre(state')]_vars

\* The wipe centre is the centre of the canvas after the loads that leave
\* the scale and the offsets as they were.
C35_CentredWhenFitUnchanged ==
    [][OnLoadCompletes /\ SameTransform(state, state')
          => getWipePositionInCanvasCoords(state') = CanvasCentre(state')]_vars

----------------------------------------------------------------------------
(* The displacement of the images in image pixels, over drags, wheel       *)
(* events, resets and reloads.                                             *)

MaxReloads == 1      \* loads of an image in one run of the pointer and reload events

\* The images a reload decodes: a 10 x 8 image A, which the view fits at
\* the scale 18, and the 2 x 2 image B.
ReloadImage(t) == IF t = "A" THEN Image(3, 10, 8) ELSE Image(3, 2, 2)

\* loadImage for a slot followed by the onload of its Image.
Reloaded(v, t) == AfterOnLoad(View(ClearSlot(v.state, t), v.dom), t, ReloadImage(t))

InitReload ==
    /\ prec = 0
    /\ state = AfterOnLoad(AfterOnLoad(PointerStart, "A", Image(1, 20, 8)), "B", Image(2, 2, 2)).state
    /\ dom = AfterOnLoad(AfterOnLoad(PointerStart, "A", Image(1, 20, 8)), "B", Image(2, 2, 2)).dom
    /\ images = <<>>
    /\ builds = {}
    /\ call = [fn |-> "pointer", gestures |-> 0, wheels |-> 0, loads |-> 0]
    /\ result = NoResult

PointerReload ==
    /\ call.fn = "pointer"
    /\ call.loads < MaxReloads
    /\ \E t \in ImageTypes :
           BecomesCounted(Reloaded(View(state, dom), t), [call EXCEPT !.loads = @ + 1])

NextReload == MouseDown \/ MouseMove \/ MouseUp \/ PointerWheel \/ PointerReload

SpecReload == InitReload /\ [][NextReload]_vars

\* offsetAX / scale, offsetAY / scale, offsetBX / scale, offsetBY / scale.
Displacement(s) ==
    <<RDiv(s.offsetAX, s.scale), RDiv(s.offsetAY, s.scale),
      RDiv(s.offsetBX, s.scale), RDiv(s.offsetBY, s.scale)>>

WholeDisplacement(s) == \A k \in 1..4 : Displacement(s)[k][2] = 1

\* A mouse move of a drag that has a side, or a step that ends with no
\* displacement (a reset).
ShiftDragOrReset ==
    \/ call' = call /\ dom.isDragging /\ dom'.isDragging /\ dom.dragSide # "none"
    \/ call' = call /\ Displacement(state') = <<RInt(0), RInt(0), RInt(0), RInt(0)>>

\* C36: the displacement of each image in image pixels is always a whole
\* number and is changed only by a shift-drag of that image and by reset;
\* wheel zooms, plain drags and image loads with their refit leave it.
C36_DisplacementFrame ==
    [][/\ WholeDisplacement(state')
       /\ Displacement(state') # Displacement(state) => ShiftDragOrReset]_vars

\* Without the loads: the steps of the mouse, the wheel and the reset key
\* keep the displacement whole and change it only in a shift-drag or reset.
C36_FrameWithoutLoads ==
    [][call'.loads = call.loads
          => /\ WholeDisplacement(state) => WholeDisplacement(state')
             /\ Displacement(state') # Displacement(state) => ShiftDragOrReset]_vars

----------------------------------------------------------------------------
(* The alpha handle dragged to the place where the alpha slider is drawn.  *)

MaxTurnDegrees == 540   \* wipe angles range over -MaxTurnDegrees .. MaxTurnDegrees

AngleStep == 15         \* in steps of AngleStep degrees

ArcStep == 5            \* slider angles of the arc, ALPHA_ARC_END_ANGLE up, in steps of ArcStep

DragWipeAngles == { AngleStep * k : k \in -(MaxTurnDegrees \div AngleStep) .. (MaxTurnDegrees \div AngleStep) }

\* The alphas whose slider is at a whole number of degrees of the arc.
ArcDegrees == { d \in ALPHA_ARC_END_ANGLE .. ALPHA_ARC_START_ANGLE : (d - ALPHA_ARC_END_ANGLE) % ArcStep = 0 }

AlphaOfArc(d) == RSub(RInt(1), Rat(d - ALPHA_ARC_END_ANGLE, ALPHA_ARC_START_ANGLE - ALPHA_ARC_END_ANGLE))

\* Math.atan2(dy, dx) * (180 / Math.PI) for a point in the direction of a
\* degrees from the wipe centre: the angle of that direction in -180 .. 180.
\* For the direction of the negative x axis dy is the rounded sine of a
\* half turn, of either sign, and the result is 180 or -180.
ClickAngles(a) ==
    IF a % 360 = 180 THEN {180, -180}
    ELSE IF a % 360 > 180 THEN {(a % 360) - 360}
    ELSE {a % 360}

\* handleWipeUIInteraction, lines 1799-1806, for the pointer at the point of
\* calculateAlphaSliderPosition: the angle from the wipe centre to the
\* pointer is slider.degrees - slider.minus.
AlphaDraggedTo(s, slider, clickAngle) ==
    [s EXCEPT !.wipeAlpha =
        AlphaAtAngle(360 - Remainder(clickAngle - s.wipeAngle + 360, 360), s.wipeAlpha)]

\* A state with both images loaded, the full wipe at the angle wipeAngle and
\* the alpha handle held; the pointer is to go where the slider is drawn
\* for the alpha call.alpha.
InitAlphaDrag ==
    /\ prec = 0
    /\ \E wipeAngle \in DragWipeAngles, wipeAlpha \in {RInt(0), RInt(1)} :
          state = [LoadedState(8, 4, 2, 2) EXCEPT !.wipeAngle = wipeAngle, !.wipeAlpha = wipeAlpha]
    /\ dom = [InitDom EXCEPT !.connected = TRUE, !.activeHandle = "alpha"]
    /\ images = <<>>
    /\ builds = {}
    /\ \E d \in ArcDegrees : call = [fn |-> "alphaDrag", alpha |-> AlphaOfArc(d)]
    /\ result = NoResult

\* The mouse move that takes the held alpha handle to the slider's place.
AlphaDrag ==
    /\ call.fn = "alphaDrag"
    /\ result = NoResult
    /\ \E clickAngle \in ClickAngles(state.wipeAngle
                 - Floor(calculateAlphaSliderPosition(getWipePositionInCanvasCoords(state),
                                                      Num(state.wipeAngle), call.alpha).minus)) :
           state' = AlphaDraggedTo(state,
                        calculateAlphaSliderPosition(getWipePositionInCanvasCoords(state),
                                                     Num(state.wipeAngle), call.alpha),
                        clickAngle)
    /\ result' = [fn |-> "alphaDrag"]
    /\ UNCHANGED <<images, builds, dom, prec, call>>

NextAlphaDrag == AlphaDrag

SpecAlphaDrag == InitAlphaDrag /\ [][NextAlphaDrag]_vars

\* C37: for every wipe angle, those outside -180 .. 180 that the wipe-angle
\* attribute sets included, and every alpha a of 0 .. 1, the alpha handle
\* dragged to the place where the slider is drawn for a sets wipeAlpha to a.
C37_AlphaRoundTrip == result.fn = "alphaDrag" => state.wipeAlpha = call.alpha

\* The round trip holds for the wipe angles up to 180 degrees, which are
\* those the rotation handle sets.
C37_RoundTripUpToHalfTurn ==
    result.fn = "alphaDrag" /\ state.wipeAngle <= 180 => state.wipeAlpha = call.alpha

----------------------------------------------------------------------------
(* The wipe in the magnifier.                                              *)

\* Two angles are the same: both zero, or the same number in the same unit.
SameAngle(x, y) == (x[1] = 0 /\ y[1] = 0) \/ x = y

\* The wipe lines drawn by the render.
WipeLinesDrawn ==
    { result.ctx.events[i] :
        i \in { j \in 1..Len(result.ctx.events) :
                  /\ result.ctx.events[j].kind = "ui"
                  /\ result.ctx.events[j].shape = "wipeLine" } }

\* The clipping paths of the wipe that drawing calls of the render are under.
WipeClipsApplied ==
    { Drawn[i].clips[Len(Drawn[i].clips)] : i \in { j \in 1..Len(Drawn) : UnderWipeClip(Drawn[j]) } }

\* updateMagnifier has rendered the wipe of a state with both images.
MagnifierWipeRendered ==
    /\ result.fn = "updateMagnifier" /\ call.magCtxOk /\ call.contextOk
    /\ state.isWipeEnabled /\ state.imageALoaded /\ state.imageBLoaded
    /\ state.compositeMode \notin SingleModes

\* C38: in every state with the wipe enabled, the wipe line drawn in the
\* magnifier and the clip boundary of the magnifier's composite are both
\* at the effective wipe angle of the main view (0 in the simple wipe,
\* wipeAngle degrees otherwise), so that the line is the clip's boundary.
C38_MagnifierSameWipe ==
    MagnifierWipeRendered =>
        /\ WipeLinesDrawn # {}
        /\ \A e \in WipeLinesDrawn : SameAngle(e.wipeAngleRad, WipeAngleRad(state))
        /\ WipeClipsApplied =
             { createWipeClippingPath(
                   <<>>, getWipePositionInCanvasCoords(MagnifierState(call.x, call.y, state)),
                   WipeAngleRad(state), MagnifierState(call.x, call.y, state)) }

\* With the wipe angle 0 the line and the clip of the magnifier are those
\* of the main view.
C38_SameWipeAtZero == state.wipeAngle = 0 => C38_MagnifierSameWipe

\* In the full wipe the clip of the magnifier is at the wipe angle.
C38_ClipInFullWipe ==
    MagnifierWipeRendered /\ ~state.isSimpleWipe =>
        WipeClipsApplied =
             { createWipeClippingPath(
                   <<>>, getWipePositionInCanvasCoords(MagnifierState(call.x, call.y, state)),
                   WipeAngleRad(state), MagnifierState(call.x, call.y, state)) }

----------------------------------------------------------------------------
(* createMipMaps on its own, one level at a time: the promise it returns   *)
(* and the image of the level being decoded.                               *)

MaxSide == 9         \* the sources are 1 .. MaxSide pixels wide and high

MaxLevels == 6       \* no build is followed beyond MaxLevels levels

\* createMipMaps has not been called; the promise has not been resolved.
InitBuild ==
    /\ prec = 0
    /\ state = InitState
    /\ dom = InitDom
    /\ images = <<>>
    /\ builds = {}
    /\ \E w \in 1..MaxSide, h \in 1..MaxSide :
           call = [fn |-> "createMipMaps", image |-> Image(1, w, h), called |-> FALSE]
    /\ result = [fn |-> "createMipMaps", resolved |-> 0, mipMaps |-> <<>>]

\* resolve(mipMaps).
Resolved(mipMaps) == [result EXCEPT !.resolved = @ + 1, !.mipMaps = mipMaps]

\* The build of a pyramid suspended at a level's decoding.
Suspended(m) ==
    [img |-> m.mipMaps[1].img, imageType |-> "A", mipMaps |-> m.mipMaps,
     width |-> m.width, height |-> m.height]

\* createMipMaps(image): the executor of the promise, up to the first
\* level's img.src = canvas.toDataURL().
CreateMipMaps ==
    /\ call.fn = "createMipMaps"
    /\ ~call.called
    /\ call' = [call EXCEPT !.called = TRUE]
    /\ \E ctxOk \in BOOLEAN :
           IF createMipMaps(call.image, ctxOk).done
           THEN /\ result' = Resolved(createMipMaps(call.image, ctxOk).mipMaps)
                /\ UNCHANGED builds
           ELSE /\ builds' = {Suspended(createMipMaps(call.image, ctxOk))}
                /\ UNCHANGED result
    /\ UNCHANGED <<state, images, dom, prec>>

\* What img.onload of a level does: push the level, createNextLevel().
NextLevelOf(b, ctxOk) ==
    createNextLevel(Append(b.mipMaps, Raster(b.img, Len(b.mipMaps), b.width, b.height)),
                    b.width, b.height, ctxOk)

\* img.onload of the level being decoded (lines 68-71).
LevelDecoded ==
    /\ call.fn = "createMipMaps"
    /\ \E b \in builds : \E ctxOk \in BOOLEAN :
           /\ Len(b.mipMaps) < MaxLevels
           /\ IF NextLevelOf(b, ctxOk).done
              THEN /\ result' = Resolved(NextLevelOf(b, ctxOk).mipMaps)
                   /\ builds' = builds \ {b}
              ELSE /\ builds' = (builds \ {b}) \cup {Suspended(NextLevelOf(b, ctxOk))}
                   /\ UNCHANGED result
    /\ UNCHANGED <<state, images, dom, prec, call>>

NextBuild == CreateMipMaps \/ LevelDecoded

SpecBuild == InitBuild /\ [][NextBuild]_vars

\* The call is made, and the image of each level is decoded: its onload
\* event comes.
SpecBuildFair == SpecBuild /\ WF_vars(CreateMipMaps) /\ WF_vars(LevelDecoded)

\* The widths and heights of the levels shrink: each level is no larger
\* than the one before it, and smaller in one dimension at least.
Shrinking(p) ==
    \A k \in 1..(Len(p) - 1) :
        /\ p[k + 1].width <= p[k].width /\ p[k + 1].height <= p[k].height
        /\ p[k + 1].width < p[k].width \/ p[k + 1].height < p[k].height

\* C39: createMipMaps terminates for every source of width and height >= 1,
\* each level's image being decoded: the levels shrink, no level is being
\* made in the end, the levels built are finitely many (at most one per
\* halving of the larger side) and the promise is resolved exactly once.
C39_BuildTerminates ==
    <>[](/\ result.resolved = 1
         /\ builds = {}
         /\ Len(result.mipMaps) >= 1
         /\ Len(result.mipMaps) < MaxLevels
         /\ Shrinking(result.mipMaps))

\* An 8 x 5 source has been built down to its 1 x 1 level.
C39_Witness ==
    /\ call.fn = "createMipMaps" /\ call.image.width = 8 /\ call.image.height = 5
    /\ result.resolved = 1 /\ builds = {}
    /\ Len(result.mipMaps) = 4
    /\ result.mipMaps[4].width = 1 /\ result.mipMaps[4].height = 1

====
